---- MODULE Spec2Model ----
(***************************************************************************)
(* HIPAA Safe Harbor verification engine of aare-edge:                     *)
(*   src/src/verification/rules.py     PHIDetection, HIPAARule, HIPAARules,*)
(*                                     create_violation_explanation        *)
(*   src/src/verification/verifier.py  VerificationResult, HIPAAVerifier,  *)
(*                                     verify_from_json                    *)
(* The state is one Python process holding one shared HIPAAVerifier; every *)
(* action is one call of the public surface, with its argument and its     *)
(* outcome (a returned value or a raised exception) kept in the state.     *)
(* A second specification runs verify on the shared verifier from several  *)
(* threads of the process, statement by statement.                         *)
(***************************************************************************)
EXTENDS Integers, Sequences, FiniteSets, TLC

VARIABLES hashseed, verifier, op, arg, ret, calls, threads, ctx

vars == <<hashseed, verifier, op, arg, ret, calls, threads, ctx>>

(***************************************************************************)
(* Bounds of the model.                                                    *)
(***************************************************************************)
\* longest detection list handed to verify / returned by an extractor
MaxLen == 3
\* longest batch handed to batch_verify
MaxBatch == 2
\* string-hash seeds of the process are 0..MaxSeed (PYTHONHASHSEED)
MaxSeed == 2
\* threads of the process that call verify on the shared verifier
MaxThreads == 2

(***************************************************************************)
(* Small helpers on sequences.                                             *)
(***************************************************************************)
Range(s) == {s[i] : i \in 1..Len(s)}

RECURSIVE SeqsUpTo(_, _)
SeqsUpTo(S, n) ==
    IF n = 0 THEN {<<>>}
    ELSE LET shorter == SeqsUpTo(S, n - 1)
         IN  shorter \cup {Append(s, x) : s \in {t \in shorter : Len(t) = n - 1}, x \in S}

RECURSIVE Concat(_)
Concat(ss) ==
    IF ss = <<>> THEN <<>>
    ELSE IF Len(ss) = 1 THEN ss[1]
    ELSE LET half == Len(ss) \div 2
         IN  Concat(SubSeq(ss, 1, half)) \o Concat(SubSeq(ss, half + 1, Len(ss)))

\* Python's sep.join(lines)
RECURSIVE join(_, _)
join(sep, lines) ==
    IF lines = <<>> THEN ""
    ELSE IF Len(lines) = 1 THEN lines[1]
    ELSE LET half == Len(lines) \div 2
         IN  join(sep, SubSeq(lines, 1, half)) \o sep
                 \o join(sep, SubSeq(lines, half + 1, Len(lines)))

\* Python's str(n) for the integers of a span
str(n) == ToString(n)

(***************************************************************************)
(* Python values: a returned value or a raised exception.                  *)
(***************************************************************************)
NoExc == [cls |-> "", base |-> "", msg |-> ""]
NoOutcome == [kind |-> "none", value |-> <<>>, exc |-> NoExc]
Return(v) == [kind |-> "return", value |-> v, exc |-> NoExc]
\* base is "Exception" for the classes `except Exception` catches and
\* "BaseException" for KeyboardInterrupt, SystemExit, GeneratorExit
Raise(cls, base, msg) ==
    [kind |-> "raise", value |-> <<>>, exc |-> [cls |-> cls, base |-> base, msg |-> msg]]

\* an Optional value: None, or the value it holds
None == <<>>
Some(x) == <<x>>

PyList(items) == [py |-> "list", items |-> items]
PyNone == [py |-> "NoneType", items |-> <<>>]

(***************************************************************************)
(* rules.py: PHIDetection.  A confidence is kept in hundredths.            *)
(***************************************************************************)
PHIDetection(category, value, start, end, confidence) ==
    [category |-> category, value |-> value, start |-> start, end |-> end,
     confidence |-> confidence]

\* the default of PHIDetection.confidence, 1.0, in hundredths
DefaultConfidence == 100

(***************************************************************************)
(* The policy configuration document configs/hipaa-v1.json and its loader  *)
(* src/data/label_mapper.py: load_hipaa_config are not among the sources;  *)
(* they are modelled from the specification (sections 4.1 and 6) and from  *)
(* the category lists of tests/test_rules.py.                              *)
(***************************************************************************)
CategoryNames ==
    << "NAMES", "GEOGRAPHIC_SUBDIVISIONS", "DATES", "PHONE_NUMBERS",
       "FAX_NUMBERS", "EMAIL_ADDRESSES", "SSN", "MEDICAL_RECORD_NUMBERS",
       "HEALTH_PLAN_BENEFICIARY_NUMBERS", "ACCOUNT_NUMBERS",
       "CERTIFICATE_LICENSE_NUMBERS", "VEHICLE_IDENTIFIERS",
       "DEVICE_IDENTIFIERS", "WEB_URLS", "IP_ADDRESSES",
       "BIOMETRIC_IDENTIFIERS", "PHOTOGRAPHIC_IMAGES",
       "ANY_OTHER_UNIQUE_IDENTIFYING_NUMBER" >>

HipaaConfig ==
    [categories |-> [i \in 1..Len(CategoryNames) |->
                        [id |-> i, name |-> CategoryNames[i], prohibited |-> TRUE]],
     num_labels |-> 1 + 2 * Len(CategoryNames)]

\* config_path is "default" (None), "configs/hipaa-v1.json" or a path with no file
load_hipaa_config(config_path) ==
    IF config_path \in {"default", "configs/hipaa-v1.json"}
    THEN Return(HipaaConfig)
    ELSE Raise("FileNotFoundError", "Exception", config_path)

(***************************************************************************)
(* rules.py: HIPAARule and HIPAARules._build_rules.                        *)
(***************************************************************************)
HIPAARule(id, name, description, categories, prohibition_type, condition) ==
    [id |-> id, name |-> name, description |-> description,
     categories |-> categories, prohibition_type |-> prohibition_type,
     condition |-> condition]

absolute_prohibitions ==
    << <<"R1", "NAMES", "Names must be removed">>,
       <<"R2", "GEOGRAPHIC_SUBDIVISIONS", "Geographic data smaller than state must be removed">>,
       <<"R3", "DATES", "Dates (except year) must be removed">>,
       <<"R4", "PHONE_NUMBERS", "Phone numbers must be removed">>,
       <<"R5", "FAX_NUMBERS", "Fax numbers must be removed">>,
       <<"R6", "EMAIL_ADDRESSES", "Email addresses must be removed">>,
       <<"R7", "SSN", "Social Security numbers must be removed">>,
       <<"R8", "MEDICAL_RECORD_NUMBERS", "Medical record numbers must be removed">>,
       <<"R9", "HEALTH_PLAN_BENEFICIARY_NUMBERS", "Health plan beneficiary numbers must be removed">>,
       <<"R10", "ACCOUNT_NUMBERS", "Account numbers must be removed">>,
       <<"R11", "CERTIFICATE_LICENSE_NUMBERS", "Certificate/license numbers must be removed">>,
       <<"R12", "VEHICLE_IDENTIFIERS", "Vehicle identifiers must be removed">>,
       <<"R13", "DEVICE_IDENTIFIERS", "Device identifiers must be removed">>,
       <<"R14", "WEB_URLS", "Web URLs must be removed">>,
       <<"R15", "IP_ADDRESSES", "IP addresses must be removed">>,
       <<"R16", "BIOMETRIC_IDENTIFIERS", "Biometric identifiers must be removed">>,
       <<"R17", "PHOTOGRAPHIC_IMAGES", "Full-face photos must be removed">>,
       <<"R18", "ANY_OTHER_UNIQUE_IDENTIFYING_NUMBER", "Other unique identifiers must be removed">> >>

conditional_rules ==
    << HIPAARule("R19", "Age Over 89", "Ages over 89 must be aggregated to 90+",
                 <<"DATES">>, "conditional", Some("age > 89")),
       HIPAARule("R20", "ZIP Code Population",
                 "ZIP codes with population < 20,000 must be zeroed",
                 <<"GEOGRAPHIC_SUBDIVISIONS">>, "conditional",
                 Some("zip_population < 20000")) >>

\* a variant that lists the conditional rules before the absolute ones
_build_rules_conditional_first ==
    conditional_rules
    \o [i \in 1..Len(absolute_prohibitions) |->
           HIPAARule(absolute_prohibitions[i][1],
                     "Prohibition of " \o absolute_prohibitions[i][2],
                     absolute_prohibitions[i][3],
                     <<absolute_prohibitions[i][2]>>, "absolute", None)]

_build_rules ==
    [i \in 1..Len(absolute_prohibitions) |->
        HIPAARule(absolute_prohibitions[i][1],
                  "Prohibition of " \o absolute_prohibitions[i][2],
                  absolute_prohibitions[i][3],
                  <<absolute_prohibitions[i][2]>>, "absolute", None)]
    \o conditional_rules

\* a variant that goes on with an empty configuration when none loads
HIPAARules_patching(config_path) ==
    LET loaded == load_hipaa_config(config_path)
    IN  IF loaded.kind = "raise"
        THEN Return([config |-> [categories |-> <<>>, num_labels |-> 1],
                     _rules |-> _build_rules])
        ELSE Return([config |-> loaded.value, _rules |-> _build_rules])

\* HIPAARules.__init__: the object is its config and its rule list
HIPAARules(config_path) ==
    LET loaded == load_hipaa_config(config_path)
    IN  IF loaded.kind = "raise" THEN loaded
        ELSE Return([config |-> loaded.value, _rules |-> _build_rules])

get_rules(self) == self._rules

\* the first rule with the id, or None
get_rule_by_id(self, rule_id) ==
    LET found == SelectSeq(self._rules, LAMBDA rule : rule.id = rule_id)
    IN  IF found = <<>> THEN None ELSE Some(found[1])

\* a variant that drops the first rule that applies
get_rules_for_category_skip_first(self, category) ==
    LET found == SelectSeq(self._rules, LAMBDA r : category \in Range(r.categories))
    IN  IF found = <<>> THEN <<>> ELSE Tail(found)

\* a variant that leaves the conditional rules out
get_rules_for_category_absolute_only(self, category) ==
    SelectSeq(self._rules, LAMBDA r : /\ category \in Range(r.categories)
                                      /\ r.prohibition_type = "absolute")

get_rules_for_category(self, category) ==
    SelectSeq(self._rules, LAMBDA r : category \in Range(r.categories))

get_prohibited_categories(self) ==
    LET cats == self.config.categories
        flagged == SelectSeq(cats, LAMBDA cat : cat.prohibited)
    IN  [i \in 1..Len(flagged) |-> flagged[i].name]

\* a variant that also takes the BIO labels of a category
is_prohibited_with_labels(self, category) ==
    \E c \in Range(get_prohibited_categories(self)) :
        category \in {c, "B-" \o c, "I-" \o c}

is_prohibited(self, category) ==
    category \in Range(get_prohibited_categories(self))

(***************************************************************************)
(* z3: the part of the solver the engine uses.  A solver is its list of    *)
(* assertions and the stack of scope marks of push().  An assertion is     *)
(*   var == val    [op |-> "eq", var, val]                                 *)
(*   Not(Or(vars)) [op |-> "not_or", vars]                                 *)
(*   Or(vars)      [op |-> "or", vars]                                     *)
(* check() searches for a satisfying assignment of the boolean variables,  *)
(* fixing a variable to the value a unit assertion var == val forces.      *)
(***************************************************************************)
Solver == [assertions |-> <<>>, scopes |-> <<>>]

Bool(name) == name

Eq(var, val) == [op |-> "eq", var |-> var, val |-> val, vars |-> <<>>]
NotOr(vs) == [op |-> "not_or", var |-> "", val |-> FALSE, vars |-> vs]
Or(vs) == [op |-> "or", var |-> "", val |-> FALSE, vars |-> vs]

solver_add(solver, c) == [solver EXCEPT !.assertions = Append(@, c)]

solver_push(solver) == [solver EXCEPT !.scopes = Append(@, Len(solver.assertions))]

solver_pop(solver) ==
    LET mark == solver.scopes[Len(solver.scopes)]
    IN  [assertions |-> SubSeq(solver.assertions, 1, mark),
         scopes |-> SubSeq(solver.scopes, 1, Len(solver.scopes) - 1)]

\* an assertion under the assignment that makes exactly the variables of T true
Holds(c, T) ==
    CASE c.op = "eq" -> ((c.var \in T) = c.val)
      [] c.op = "not_or" -> ~(\E i \in 1..Len(c.vars) : c.vars[i] \in T)
      [] c.op = "or" -> (\E i \in 1..Len(c.vars) : c.vars[i] \in T)

AssertionVars(c) == IF c.op = "eq" THEN {c.var} ELSE Range(c.vars)

RECURSIVE Satisfiable(_, _, _)
Satisfiable(assertions, free, T) ==
    IF free = {}
    THEN \A i \in 1..Len(assertions) : Holds(assertions[i], T)
    ELSE LET v == CHOOSE x \in free : TRUE
             forced == {assertions[i].val : i \in {j \in 1..Len(assertions) :
                            assertions[j].op = "eq" /\ assertions[j].var = v}}
             values == IF forced = {} THEN BOOLEAN ELSE forced
         IN  /\ Cardinality(forced) <= 1
             /\ \E b \in values :
                    Satisfiable(assertions, free \ {v}, IF b THEN T \cup {v} ELSE T)

solver_check(solver) ==
    LET all == UNION {AssertionVars(solver.assertions[i]) : i \in 1..Len(solver.assertions)}
    IN  IF Satisfiable(solver.assertions, all, {}) THEN "sat" ELSE "unsat"

(***************************************************************************)
(* Python dict with insertion order: a sequence of <<key, value>> pairs.   *)
(***************************************************************************)
dict_has(d, k) == \E i \in 1..Len(d) : d[i][1] = k
dict_get(d, k) == d[CHOOSE i \in 1..Len(d) : d[i][1] = k][2]
dict_set(d, k, v) ==
    IF dict_has(d, k)
    THEN [i \in 1..Len(d) |-> IF d[i][1] = k THEN <<k, v>> ELSE d[i]]
    ELSE Append(d, <<k, v>>)

(***************************************************************************)
(* list(set(xs)): a set of strings is iterated in hash-table order, which  *)
(* depends on the string hashes of the process (randomised by its hash     *)
(* seed) and not on the order of insertion.  The hash of the model ranks   *)
(* the category names by a seed-dependent bijection.                       *)
(***************************************************************************)
OtherNames == << "NONEXISTENT_CATEGORY", "names", "B-NAMES" >>

HashedNames == CategoryNames \o OtherNames

str_hash(s, seed) ==
    LET i == CHOOSE j \in 1..Len(HashedNames) : HashedNames[j] = s
    IN  (i * (7 * seed + 1)) % 23

RECURSIVE set_iter(_, _)
set_iter(S, seed) ==
    IF S = {} THEN <<>>
    ELSE LET first == CHOOSE x \in S : \A y \in S : str_hash(x, seed) <= str_hash(y, seed)
         IN  <<first>> \o set_iter(S \ {first}, seed)

list_set(xs, seed) == set_iter(Range(xs), seed)

(***************************************************************************)
(* rules.py: HIPAARules.create_z3_constraints and add_compliance_rule.     *)
(***************************************************************************)
RECURSIVE category_vars_of(_)
category_vars_of(categories) ==
    IF categories = <<>> THEN <<>>
    ELSE LET n == Len(categories)
         IN  dict_set(category_vars_of(SubSeq(categories, 1, n - 1)),
                      categories[n], Bool(categories[n] \o "_detected"))

RECURSIVE add_detected(_, _, _)
add_detected(solver, items, detected_categories) ==
    IF items = <<>> THEN solver
    ELSE add_detected(
            solver_add(solver, Eq(items[1][2], items[1][1] \in detected_categories)),
            Tail(items), detected_categories)

\* a variant that looks at the first detection only
create_z3_constraints_first_only(self, detections, solver) ==
    LET category_vars == category_vars_of(get_prohibited_categories(self))
        detected_categories == {detections[i].category : i \in 1..Len(detections) \cap {1}}
    IN  [category_vars |-> category_vars,
         solver |-> add_detected(solver, category_vars, detected_categories)]

\* a variant that takes a detection as present from confidence 0.5 on
create_z3_constraints_confident(self, detections, solver) ==
    LET category_vars == category_vars_of(get_prohibited_categories(self))
        detected_categories == {detections[i].category :
                                   i \in {k \in 1..Len(detections) :
                                              detections[k].confidence >= 50}}
    IN  [category_vars |-> category_vars,
         solver |-> add_detected(solver, category_vars, detected_categories)]

\* a variant that takes the last detection of the list alone as present
create_z3_constraints_last_only(self, detections, solver) ==
    LET category_vars == category_vars_of(get_prohibited_categories(self))
        detected_categories == {detections[i].category :
                                   i \in 1..Len(detections) \cap {Len(detections)}}
    IN  [category_vars |-> category_vars,
         solver |-> add_detected(solver, category_vars, detected_categories)]

create_z3_constraints(self, detections, solver) ==
    LET category_vars == category_vars_of(get_prohibited_categories(self))
        detected_categories == {detections[i].category : i \in 1..Len(detections)}
    IN  [category_vars |-> category_vars,
         solver |-> add_detected(solver, category_vars, detected_categories)]

\* a variant that asserts the disjunction without its negation
add_compliance_rule_unnegated(self, solver, category_vars) ==
    LET kept == SelectSeq(category_vars, LAMBDA kv : is_prohibited(self, kv[1]))
        prohibited_detected == [i \in 1..Len(kept) |-> kept[i][2]]
    IN  IF prohibited_detected # <<>>
        THEN solver_add(solver, Or(prohibited_detected))
        ELSE solver

add_compliance_rule(self, solver, category_vars) ==
    LET kept == SelectSeq(category_vars, LAMBDA kv : is_prohibited(self, kv[1]))
        prohibited_detected == [i \in 1..Len(kept) |-> kept[i][2]]
    IN  IF prohibited_detected # <<>>
        THEN solver_add(solver, NotOr(prohibited_detected))
        ELSE solver

(***************************************************************************)
(* rules.py: create_violation_explanation.                                 *)
(***************************************************************************)
violation_record(detection, rules) ==
    LET applicable_rules == get_rules_for_category(rules, detection.category)
    IN  [category |-> detection.category,
         value |-> detection.value,
         location |-> [start |-> detection.start, end |-> detection.end],
         confidence |-> detection.confidence,
         violated_rules |->
            [i \in 1..Len(applicable_rules) |->
                [id |-> applicable_rules[i].id, name |-> applicable_rules[i].name,
                 description |-> applicable_rules[i].description]]]

\* a variant that keeps one record per category
create_violation_explanation_per_category(detections, rules, seed) ==
    LET hits == SelectSeq(detections, LAMBDA d : is_prohibited(rules, d.category))
        firsts == {i \in 1..Len(hits) : \A j \in 1..(i - 1) : hits[j].category # hits[i].category}
        kept == [k \in 1..Cardinality(firsts) |->
                    hits[CHOOSE i \in firsts : Cardinality({j \in firsts : j <= i}) = k]]
        violations == [i \in 1..Len(kept) |-> violation_record(kept[i], rules)]
    IN  [num_violations |-> Len(violations),
         violations |-> violations,
         categories_violated |->
            list_set([i \in 1..Len(violations) |-> violations[i].category], seed)]

\* a variant that makes a record of every detection
create_violation_explanation_unfiltered(detections, rules, seed) ==
    LET violations == [i \in 1..Len(detections) |-> violation_record(detections[i], rules)]
    IN  [num_violations |-> Len(violations),
         violations |-> violations,
         categories_violated |->
            list_set([i \in 1..Len(violations) |-> violations[i].category], seed)]

create_violation_explanation(detections, rules, seed) ==
    LET hits == SelectSeq(detections, LAMBDA d : is_prohibited(rules, d.category))
        violations == [i \in 1..Len(hits) |-> violation_record(hits[i], rules)]
    IN  [num_violations |-> Len(violations),
         violations |-> violations,
         categories_violated |->
            list_set([i \in 1..Len(violations) |-> violations[i].category], seed)]

(***************************************************************************)
(* verifier.py: ComplianceStatus and VerificationResult.                   *)
(***************************************************************************)
COMPLIANT == "compliant"
VIOLATION == "violation"
ERROR == "error"

VerificationResult(status, entities, proof, violations, metadata) ==
    [status |-> status, entities |-> entities, proof |-> proof,
     violations |-> violations, metadata |-> metadata]

\* Python's s * n
RECURSIVE repeat(_, _)
repeat(s, n) == IF n = 0 THEN "" ELSE s \o repeat(s, n - 1)

(***************************************************************************)
(* verifier.py: HIPAAVerifier.verify, the two proofs it writes.            *)
(***************************************************************************)
violation_block(v) ==
    << "Category: " \o v.category,
       "  Value: " \o v.value,
       "  Position: " \o str(v.location.start) \o "-" \o str(v.location.end) >>
    \o [i \in 1..Len(v.violated_rules) |->
           "  Violated: " \o v.violated_rules[i].id \o " - "
               \o v.violated_rules[i].description]
    \o << "" >>

\* a variant whose total is the number of categories
violation_proof_counts_categories(violations) ==
    LET proof_lines ==
            << "HIPAA VIOLATION DETECTED", repeat("=", 40) >>
            \o Concat([i \in 1..Len(violations.violations) |->
                          violation_block(violations.violations[i])])
            \o << "Total violations: " \o str(Len(violations.categories_violated)),
                  "Categories: " \o join(", ", violations.categories_violated) >>
    IN  join("\n", proof_lines)

violation_proof(violations) ==
    LET proof_lines ==
            << "HIPAA VIOLATION DETECTED", repeat("=", 40) >>
            \o Concat([i \in 1..Len(violations.violations) |->
                          violation_block(violations.violations[i])])
            \o << "Total violations: " \o str(violations.num_violations),
                  "Categories: " \o join(", ", violations.categories_violated) >>
    IN  join("\n", proof_lines)

\* a variant that marks every category detected once there is any entity
compliant_proof_any_entity(prohibited_categories, entities) ==
    LET proof_lines ==
            << "HIPAA COMPLIANT", repeat("=", 40),
               "No prohibited PHI identifiers detected.", "",
               "Verification passed for all 18 HIPAA Safe Harbor categories:" >>
            \o [i \in 1..Len(prohibited_categories) |->
                   LET cat == prohibited_categories[i]
                       detected == entities # <<>>
                       status == IF detected THEN "[x] DETECTED" ELSE "[v] Clear"
                   IN  "  " \o cat \o ": " \o status]
    IN  join("\n", proof_lines)

\* the marks of the source are U+2717 and U+2713, written here in ASCII
compliant_proof(prohibited_categories, entities) ==
    LET proof_lines ==
            << "HIPAA COMPLIANT", repeat("=", 40),
               "No prohibited PHI identifiers detected.", "",
               "Verification passed for all 18 HIPAA Safe Harbor categories:" >>
            \o [i \in 1..Len(prohibited_categories) |->
                   LET cat == prohibited_categories[i]
                       detected == \E j \in 1..Len(entities) : entities[j].category = cat
                       status == IF detected THEN "[x] DETECTED" ELSE "[v] Clear"
                   IN  "  " \o cat \o ": " \o status]
    IN  join("\n", proof_lines)

\* the solver's verdict on "no prohibited category is detected", and the
\* solver as pop() leaves it
compliance_check(self, entities) ==
    LET made == create_z3_constraints(self.rules, entities, Solver)
        category_vars == made.category_vars
        prohibited_categories == get_prohibited_categories(self.rules)
        present == SelectSeq(prohibited_categories,
                             LAMBDA cat : dict_has(category_vars, cat))
        prohibited_vars == [i \in 1..Len(present) |-> dict_get(category_vars, present[i])]
        pushed == solver_push(made.solver)
        asserted == IF prohibited_vars # <<>>
                    THEN solver_add(pushed, NotOr(prohibited_vars))
                    ELSE pushed
    IN  [result |-> solver_check(asserted), solver |-> solver_pop(asserted)]

\* entities is a Python value; iterating one that is no list raises (rules.py:156)
\* a variant whose result keeps the first detection of each category only
generate_result_first_of_category(self, entities, result, seed) ==
    LET kept == SelectSeq([i \in 1..Len(entities) |-> [i |-> i, d |-> entities[i]]],
                          LAMBDA x : \A j \in 1..(x.i - 1) :
                                         entities[j].category # x.d.category)
        firsts == [k \in 1..Len(kept) |-> kept[k].d]
    IN  IF result = "unsat"
        THEN LET violations == create_violation_explanation(entities, self.rules, seed)
             IN  Return(VerificationResult(VIOLATION, firsts,
                                           violation_proof(violations),
                                           Some(violations),
                                           [solver_result |-> "unsat"]))
        ELSE Return(VerificationResult(COMPLIANT, firsts,
                        compliant_proof(get_prohibited_categories(self.rules), entities),
                        None, [solver_result |-> "sat"]))

\* a variant that attaches the report to a Compliant result too
generate_result_report_always(self, entities, result, seed) ==
    LET violations == create_violation_explanation(entities, self.rules, seed)
    IN  IF result = "unsat"
        THEN Return(VerificationResult(VIOLATION, entities,
                                       violation_proof(violations),
                                       Some(violations),
                                       [solver_result |-> "unsat"]))
        ELSE Return(VerificationResult(COMPLIANT, entities,
                        compliant_proof(get_prohibited_categories(self.rules), entities),
                        Some(violations), [solver_result |-> "sat"]))

\* lines 108-159: the result built from the solver's answer
generate_result(self, entities, result, seed) ==
    IF result = "unsat"
    THEN LET violations == create_violation_explanation(entities, self.rules, seed)
         IN  Return(VerificationResult(VIOLATION, entities,
                                       violation_proof(violations),
                                       Some(violations),
                                       [solver_result |-> "unsat"]))
    ELSE Return(VerificationResult(COMPLIANT, entities,
                    compliant_proof(get_prohibited_categories(self.rules), entities),
                    None, [solver_result |-> "sat"]))

verify(self, entities, seed) ==
    IF entities.py # "list"
    THEN Raise("TypeError", "Exception", "'NoneType' object is not iterable")
    ELSE generate_result(self, entities.items,
                         compliance_check(self, entities.items).result, seed)

\* a variant that leaves the caller's list sorted by start offset
entities_after_verify_sorted(self, entities) ==
    IF entities.py # "list" THEN entities
    ELSE LET D == entities.items
             rank(i) == Cardinality({j \in 1..Len(D) :
                            D[j].start < D[i].start \/ (D[j].start = D[i].start /\ j < i)})
         IN  PyList([k \in 1..Len(D) |-> D[CHOOSE i \in 1..Len(D) : rank(i) = k - 1]])

\* the caller's list as verify leaves it: verify and the functions it calls
\* iterate over entities and read the attributes of its detections; no
\* statement assigns to an element or to an attribute
entities_after_verify(self, entities) == entities

(***************************************************************************)
(* verifier.py: HIPAAVerifier.verify_text.  An extractor is absent, or     *)
(* returns a Python value, or raises.  The outcome carries the internal    *)
(* calls made.                                                             *)
(***************************************************************************)
NoExtractor == [kind |-> "none", value |-> PyNone, exc |-> NoExc]
Extracts(v) == [kind |-> "returns", value |-> v, exc |-> NoExc]
Fails(cls, base, msg) ==
    [kind |-> "raises", value |-> PyNone, exc |-> [cls |-> cls, base |-> base, msg |-> msg]]

\* `except Exception as e` (line 191) on a raised outcome
error_result(raised) ==
    IF raised.exc.base = "Exception"
    THEN Return(VerificationResult(ERROR, <<>>,
                    "Error during verification: " \o raised.exc.msg,
                    None, [error |-> raised.exc.msg]))
    ELSE raised

\* a variant whose try block holds the extraction alone
verify_text_narrow_try(self, text, entity_extractor, seed) ==
    IF entity_extractor.kind = "none"
    THEN [out |-> Return(VerificationResult(ERROR, <<>>,
                    "No entity extractor provided. Use verify() with pre-extracted entities.",
                    None, [error |-> "no_extractor"])),
          calls |-> <<>>]
    ELSE IF entity_extractor.kind = "raises"
    THEN [out |-> error_result([kind |-> "raise", value |-> <<>>,
                                exc |-> entity_extractor.exc]),
          calls |-> <<"entity_extractor">>]
    ELSE [out |-> verify(self, entity_extractor.value, seed),
          calls |-> <<"entity_extractor", "verify">>]

\* a variant without the test for an absent extractor: calling None raises
verify_text_unguarded(self, text, entity_extractor, seed) ==
    IF entity_extractor.kind = "none"
    THEN [out |-> error_result(Raise("TypeError", "Exception",
                                     "'NoneType' object is not callable")),
          calls |-> <<"entity_extractor">>]
    ELSE IF entity_extractor.kind = "raises"
    THEN [out |-> error_result([kind |-> "raise", value |-> <<>>,
                                exc |-> entity_extractor.exc]),
          calls |-> <<"entity_extractor">>]
    ELSE LET verified == verify(self, entity_extractor.value, seed)
         IN  [out |-> IF verified.kind = "raise" THEN error_result(verified) ELSE verified,
              calls |-> <<"entity_extractor", "verify">>]

verify_text(self, text, entity_extractor, seed) ==
    IF entity_extractor.kind = "none"
    THEN [out |-> Return(VerificationResult(ERROR, <<>>,
                    "No entity extractor provided. Use verify() with pre-extracted entities.",
                    None, [error |-> "no_extractor"])),
          calls |-> <<>>]
    ELSE IF entity_extractor.kind = "raises"
    THEN [out |-> error_result([kind |-> "raise", value |-> <<>>,
                                exc |-> entity_extractor.exc]),
          calls |-> <<"entity_extractor">>]
    ELSE LET verified == verify(self, entity_extractor.value, seed)
         IN  [out |-> IF verified.kind = "raise" THEN error_result(verified) ELSE verified,
              calls |-> <<"entity_extractor", "verify">>]

(***************************************************************************)
(* verifier.py: HIPAAVerifier.batch_verify.  The list comprehension ends   *)
(* at the first document whose verification raises.                        *)
(***************************************************************************)
\* a variant that turns a failing document into an Error result
RECURSIVE batch_verify_isolating(_, _, _)
batch_verify_isolating(self, documents, seed) ==
    IF documents = <<>> THEN Return(<<>>)
    ELSE LET first == error_result(verify(self, documents[1], seed))
             rest == batch_verify_isolating(self, Tail(documents), seed)
         IN  IF first.kind = "raise" THEN first
             ELSE IF rest.kind = "raise" THEN rest
             ELSE Return(<<first.value>> \o rest.value)

\* a variant whose state outlives a document: each document is verified
\* together with the detections of the document before it
RECURSIVE batch_verify_carrying_over(_, _, _)
batch_verify_carrying_over(self, documents, seed) ==
    IF documents = <<>> THEN Return(<<>>)
    ELSE LET n == Len(documents)
             front == batch_verify_carrying_over(self, SubSeq(documents, 1, n - 1), seed)
             carried == IF n > 1 /\ documents[n - 1].py = "list" /\ documents[n].py = "list"
                        THEN PyList(documents[n - 1].items \o documents[n].items)
                        ELSE documents[n]
             last == verify(self, carried, seed)
         IN  IF front.kind = "raise" THEN front
             ELSE IF last.kind = "raise" THEN last
             ELSE Return(Append(front.value, last.value))

RECURSIVE batch_verify(_, _, _)
batch_verify(self, documents, seed) ==
    IF documents = <<>> THEN Return(<<>>)
    ELSE LET first == verify(self, documents[1], seed)
         IN  IF first.kind = "raise" THEN first
             ELSE LET rest == batch_verify(self, Tail(documents), seed)
                  IN  IF rest.kind = "raise" THEN rest
                      ELSE Return(<<first.value>> \o rest.value)

(***************************************************************************)
(* verifier.py: VerificationResult.to_dict and to_json, and the json       *)
(* module as they use it.  A wire value is null, a string, an integer, a   *)
(* float (in hundredths), an array or an object; an object is the list of  *)
(* its members in insertion order.  A JSON text is the list of its tokens: *)
(* punctuation, literals and the white space of indent=2.  A string token  *)
(* carries the characters of the string, escaping undone.                  *)
(***************************************************************************)
JNull == [j |-> "null", s |-> "", n |-> 0, items |-> <<>>]
JStr(s) == [j |-> "string", s |-> s, n |-> 0, items |-> <<>>]
JInt(n) == [j |-> "int", s |-> "", n |-> n, items |-> <<>>]
JFloat(n) == [j |-> "float", s |-> "", n |-> n, items |-> <<>>]
JArr(items) == [j |-> "array", s |-> "", n |-> 0, items |-> items]
JMember(key, value) == [j |-> "member", s |-> key, n |-> 0, items |-> <<value>>]
JObj(members) == [j |-> "object", s |-> "", n |-> 0, items |-> members]

\* the dict create_violation_explanation built, as json sees it
violations_dict(violations) ==
    JObj(<< JMember("num_violations", JInt(violations.num_violations)),
            JMember("violations",
                JArr([i \in 1..Len(violations.violations) |->
                    LET v == violations.violations[i]
                    IN  JObj(<< JMember("category", JStr(v.category)),
                                JMember("value", JStr(v.value)),
                                JMember("location",
                                    JObj(<< JMember("start", JInt(v.location.start)),
                                            JMember("end", JInt(v.location.end)) >>)),
                                JMember("confidence", JFloat(v.confidence)),
                                JMember("violated_rules",
                                    JArr([k \in 1..Len(v.violated_rules) |->
                                        JObj(<< JMember("id", JStr(v.violated_rules[k].id)),
                                                JMember("name", JStr(v.violated_rules[k].name)),
                                                JMember("description",
                                                    JStr(v.violated_rules[k].description)) >>)]))
                             >>)])),
            JMember("categories_violated",
                JArr([i \in 1..Len(violations.categories_violated) |->
                        JStr(violations.categories_violated[i])])) >>)

\* the metadata dict: its keys hold strings
metadata_dict(metadata) ==
    LET keys == DOMAIN metadata
        RECURSIVE members(_)
        members(K) ==
            IF K = {} THEN <<>>
            ELSE LET k == CHOOSE x \in K : TRUE
                 IN  <<JMember(k, JStr(metadata[k]))>> \o members(K \ {k})
    IN  JObj(members(keys))

\* a variant that writes the status as the name of the enum member
to_dict_status_name(self) ==
    JObj(<< JMember("status", JStr("ComplianceStatus." \o self.status)),
            JMember("entities",
                JArr([i \in 1..Len(self.entities) |->
                    JObj(<< JMember("category", JStr(self.entities[i].category)),
                            JMember("value", JStr(self.entities[i].value)),
                            JMember("start", JInt(self.entities[i].start)),
                            JMember("end", JInt(self.entities[i].end)),
                            JMember("confidence", JFloat(self.entities[i].confidence)) >>)])),
            JMember("proof", JStr(self.proof)),
            JMember("violations",
                IF self.violations = None THEN JNull
                ELSE violations_dict(self.violations[1])),
            JMember("metadata", metadata_dict(self.metadata)) >>)

to_dict(self) ==
    JObj(<< JMember("status", JStr(self.status)),
            JMember("entities",
                JArr([i \in 1..Len(self.entities) |->
                    JObj(<< JMember("category", JStr(self.entities[i].category)),
                            JMember("value", JStr(self.entities[i].value)),
                            JMember("start", JInt(self.entities[i].start)),
                            JMember("end", JInt(self.entities[i].end)),
                            JMember("confidence", JFloat(self.entities[i].confidence)) >>)])),
            JMember("proof", JStr(self.proof)),
            JMember("violations",
                IF self.violations = None THEN JNull
                ELSE violations_dict(self.violations[1])),
            JMember("metadata", metadata_dict(self.metadata)) >>)

Token(tok, s, n) == [tok |-> tok, s |-> s, n |-> n]
Punct(c) == Token(c, "", 0)
\* the newline and the indentation of a nesting depth
Indent(depth) == Token("ws", "", 2 * depth)

\* json.dumps(obj, indent=2): the tokens of the text
RECURSIVE json_dumps_at(_, _)
RECURSIVE dumps_elements(_, _, _)
dumps_elements(items, k, depth) ==
    IF k > Len(items) THEN <<>>
    ELSE (IF k > 1 THEN <<Punct(",")>> ELSE <<>>)
         \o <<Indent(depth)>>
         \o json_dumps_at(items[k], depth)
         \o dumps_elements(items, k + 1, depth)

json_dumps_at(obj, depth) ==
    IF obj.j = "null" THEN <<Token("null", "", 0)>>
    ELSE IF obj.j = "string" THEN <<Token("string", obj.s, 0)>>
    ELSE IF obj.j = "int" THEN <<Token("int", "", obj.n)>>
    ELSE IF obj.j = "float" THEN <<Token("float", "", obj.n)>>
    ELSE IF obj.j = "member"
    THEN <<Token("string", obj.s, 0), Punct(":"), Indent(0)>>
         \o json_dumps_at(obj.items[1], depth)
    ELSE IF obj.j = "array"
    THEN IF obj.items = <<>> THEN <<Punct("["), Punct("]")>>
         ELSE <<Punct("[")>> \o dumps_elements(obj.items, 1, depth + 1)
              \o <<Indent(depth), Punct("]")>>
    ELSE IF obj.items = <<>> THEN <<Punct("{"), Punct("}")>>
         ELSE <<Punct("{")>> \o dumps_elements(obj.items, 1, depth + 1)
              \o <<Indent(depth), Punct("}")>>

json_dumps(obj) == json_dumps_at(obj, 0)

to_json(self) == json_dumps(to_dict(self))

\* json.loads(text): a recursive-descent parse of the tokens, white space
\* skipped.  A parse is the value read and the position after it, or a
\* failure.
Parse(value, next) == [ok |-> TRUE, value |-> value, next |-> next]
NoParse == [ok |-> FALSE, value |-> JNull, next |-> 0]

RECURSIVE parse_value(_, _)
RECURSIVE parse_elements(_, _, _)
RECURSIVE parse_members(_, _, _)

\* the elements of an array from position i, those read so far in acc
parse_elements(toks, i, acc) ==
    LET v == parse_value(toks, i)
    IN  IF ~v.ok \/ v.next > Len(toks) THEN NoParse
        ELSE IF toks[v.next].tok = "]" THEN Parse(JArr(Append(acc, v.value)), v.next + 1)
        ELSE IF toks[v.next].tok = "," THEN parse_elements(toks, v.next + 1, Append(acc, v.value))
        ELSE NoParse

\* the members of an object from position i; a repeated key keeps its place
\* and takes the last value
parse_members(toks, i, acc) ==
    IF i + 1 > Len(toks) \/ toks[i].tok # "string" \/ toks[i + 1].tok # ":" THEN NoParse
    ELSE LET v == parse_value(toks, i + 2)
             key == toks[i].s
             seen == {k \in 1..Len(acc) : acc[k].s = key}
             members == IF seen = {}
                        THEN Append(acc, JMember(key, v.value))
                        ELSE [k \in 1..Len(acc) |->
                                 IF k \in seen THEN JMember(key, v.value) ELSE acc[k]]
         IN  IF ~v.ok \/ v.next > Len(toks) THEN NoParse
             ELSE IF toks[v.next].tok = "}" THEN Parse(JObj(members), v.next + 1)
             ELSE IF toks[v.next].tok = "," THEN parse_members(toks, v.next + 1, members)
             ELSE NoParse

parse_value(toks, i) ==
    IF i > Len(toks) THEN NoParse
    ELSE LET t == toks[i]
         IN  IF t.tok = "null" THEN Parse(JNull, i + 1)
             ELSE IF t.tok = "string" THEN Parse(JStr(t.s), i + 1)
             ELSE IF t.tok = "int" THEN Parse(JInt(t.n), i + 1)
             ELSE IF t.tok = "float" THEN Parse(JFloat(t.n), i + 1)
             ELSE IF t.tok = "["
             THEN IF i + 1 <= Len(toks) /\ toks[i + 1].tok = "]"
                  THEN Parse(JArr(<<>>), i + 2)
                  ELSE parse_elements(toks, i + 1, <<>>)
             ELSE IF t.tok = "{"
             THEN IF i + 1 <= Len(toks) /\ toks[i + 1].tok = "}"
                  THEN Parse(JObj(<<>>), i + 2)
                  ELSE parse_members(toks, i + 1, <<>>)
             ELSE NoParse

json_loads_text(text) ==
    LET toks == SelectSeq(text, LAMBDA t : t.tok # "ws")
        v == parse_value(toks, 1)
    IN  IF v.ok /\ v.next = Len(toks) + 1 THEN Return(v.value)
        ELSE Raise("JSONDecodeError", "Exception", "Expecting value")

(***************************************************************************)
(* verifier.py: HIPAAVerifier.__init__ and verify_from_json.  A payload is *)
(* a JSON text, a list of entity mappings or a mapping.                    *)
(***************************************************************************)
HIPAAVerifier(config_path) ==
    LET made == HIPAARules(config_path)
    IN  IF made.kind = "raise" THEN made ELSE Return([rules |-> made.value])

JsonList(items) == [t |-> "list", items |-> items, d |-> <<>>, text |-> None]
JsonDict(d) == [t |-> "dict", items |-> <<>>, d |-> d, text |-> None]
\* a JSON text and the document it encodes (None: not JSON)
JsonText(doc) == [t |-> "str", items |-> <<>>, d |-> <<>>, text |-> doc]
\* a JSON text given by its tokens
JsonTokens(toks) == [t |-> "str", items |-> toks, d |-> <<>>, text |-> None]

\* a variant that reads a float as the integer below it
RECURSIVE python_value_truncating(_)
python_value_truncating(node) ==
    IF node.j = "object"
    THEN [k \in {node.items[i].s : i \in 1..Len(node.items)} |->
             python_value_truncating(
                 node.items[CHOOSE i \in 1..Len(node.items) : node.items[i].s = k].items[1])]
    ELSE IF node.j = "array"
    THEN [i \in 1..Len(node.items) |-> python_value_truncating(node.items[i])]
    ELSE IF node.j = "string" THEN node.s
    ELSE IF node.j = "null" THEN None
    ELSE IF node.j = "float" THEN node.n \div 100
    ELSE node.n

\* the Python value of a wire value: a dict by key, a list by position, a
\* string, a number (a float in hundredths) or None
RECURSIVE python_value(_)
python_value(node) ==
    IF node.j = "object"
    THEN [k \in {node.items[i].s : i \in 1..Len(node.items)} |->
             python_value(
                 node.items[CHOOSE i \in 1..Len(node.items) : node.items[i].s = k].items[1])]
    ELSE IF node.j = "array"
    THEN [i \in 1..Len(node.items) |-> python_value(node.items[i])]
    ELSE IF node.j = "string" THEN node.s
    ELSE IF node.j = "null" THEN None
    ELSE node.n

\* the payload a wire value is: a mapping, a list, or a value of another type
document_of(node) ==
    IF node.j = "object" THEN JsonDict(python_value(node))
    ELSE IF node.j = "array" THEN JsonList(python_value(node))
    ELSE [t |-> IF node.j = "null" THEN "NoneType"
                ELSE IF node.j = "string" THEN "text" ELSE node.j,
          items |-> <<>>, d |-> <<>>, text |-> None]

\* json.loads of a text: the document a text stands for, or the parse of
\* its tokens; the empty text is no JSON
json_loads(s) ==
    IF s.text # None THEN Return(s.text[1])
    ELSE IF s.items = <<>>
    THEN Raise("JSONDecodeError", "Exception", "Expecting value: line 1 column 1 (char 0)")
    ELSE LET parsed == json_loads_text(s.items)
         IN  IF parsed.kind = "raise" THEN parsed
             ELSE Return(document_of(parsed.value))

dict_get_default(e, key, default) == IF key \in DOMAIN e THEN e[key] ELSE default

\* a variant that takes a record's optional fields only when all are there
RECURSIVE detections_from_all_or_nothing(_)
detections_from_all_or_nothing(records) ==
    IF records = <<>> THEN Return(<<>>)
    ELSE LET e == records[1]
             whole == {"value", "start", "end", "confidence"} \subseteq DOMAIN e
         IN  IF "category" \notin DOMAIN e
             THEN Raise("KeyError", "Exception", "'category'")
             ELSE LET rest == detections_from_all_or_nothing(Tail(records))
                  IN  IF rest.kind = "raise" THEN rest
                      ELSE Return(<<PHIDetection(e["category"],
                                        IF whole THEN e["value"] ELSE "",
                                        IF whole THEN e["start"] ELSE 0,
                                        IF whole THEN e["end"] ELSE 0,
                                        IF whole THEN e["confidence"] ELSE DefaultConfidence)>>
                                  \o rest.value)

RECURSIVE detections_from(_)
detections_from(records) ==
    IF records = <<>> THEN Return(<<>>)
    ELSE LET e == records[1]
         IN  IF "category" \notin DOMAIN e
             THEN Raise("KeyError", "Exception", "'category'")
             ELSE LET rest == detections_from(Tail(records))
                  IN  IF rest.kind = "raise" THEN rest
                      ELSE Return(<<PHIDetection(e["category"],
                                        dict_get_default(e, "value", ""),
                                        dict_get_default(e, "start", 0),
                                        dict_get_default(e, "end", 0),
                                        dict_get_default(e, "confidence", DefaultConfidence))>>
                                  \o rest.value)

\* entities_json.get("entities", entities_json) and the iteration over it
entity_records(doc) ==
    IF doc.t # "dict"
    THEN Raise("AttributeError", "Exception",
               "'" \o (IF doc.t = "text" THEN "str" ELSE doc.t)
                   \o "' object has no attribute 'get'")
    ELSE IF "entities" \in DOMAIN doc.d THEN Return(doc.d["entities"])
    ELSE IF DOMAIN doc.d = {} THEN Return(<<>>)
    ELSE Raise("TypeError", "Exception", "string indices must be integers, not 'str'")

verify_from_json(entities_json, config_path, seed) ==
    LET loaded == IF entities_json.t = "str" THEN json_loads(entities_json)
                  ELSE Return(entities_json)
    IN  IF loaded.kind = "raise" THEN loaded
        ELSE LET records == entity_records(loaded.value)
             IN  IF records.kind = "raise" THEN records
                 ELSE LET entities == detections_from(records.value)
                      IN  IF entities.kind = "raise" THEN entities
                          ELSE LET made == HIPAAVerifier(config_path)
                               IN  IF made.kind = "raise" THEN made
                                   ELSE verify(made.value, PyList(entities.value), seed)

(***************************************************************************)
(* The inputs of the calls.                                                *)
(***************************************************************************)
\* detections that repeat a category, overlap, have an empty value, a 0-0
\* span or a confidence of 0.01, one of a category with a conditional rule
\* and one whose category is a case variant of a category name
CoreDetections ==
    {PHIDetection("NAMES", "John Smith", 0, 10, 95),
     PHIDetection("NAMES", "Jane Doe", 5, 13, 1),
     PHIDetection("SSN", "", 0, 0, DefaultConfidence),
     PHIDetection("DATES", "01/15/2024", 12, 22, 88),
     PHIDetection("names", "john", 30, 34, 90)}

\* one detection of every category, in category order
OneOfEach == [i \in 1..Len(CategoryNames) |-> PHIDetection(CategoryNames[i], "val", 10, 20, 95)]

\* every list of core detections up to MaxLen, every single detection of a
\* category or of a name that is no category, and the list of all categories
DetectionLists ==
    SeqsUpTo(CoreDetections, MaxLen)
    \cup {<<PHIDetection(c, "val", 10, 20, 95)>> : c \in Range(HashedNames)}
    \cup {OneOfEach}

EntityValues == {PyList(D) : D \in DetectionLists} \cup {PyNone}

Texts == {"", "Test text"}

Extractors ==
    {NoExtractor}
    \cup {Extracts(v) : v \in EntityValues}
    \cup {Fails("ValueError", "Exception", "Extraction failed"),
          Fails("RuntimeError", "Exception", "boom"),
          Fails("KeyboardInterrupt", "BaseException", ""),
          Fails("SystemExit", "BaseException", "1")}

SampleDocuments ==
    {PyList(<<>>),
     PyList(<<PHIDetection("NAMES", "John", 0, 4, 90)>>),
     PyList(<<PHIDetection("SSN", "123-45-6789", 0, 11, DefaultConfidence),
              PHIDetection("DATES", "01/15/2024", 12, 22, 88)>>),
     PyList(<<PHIDetection("names", "john", 0, 4, 90)>>),
     PyNone}

Batches == SeqsUpTo(SampleDocuments, MaxBatch)

SampleRecords ==
    {[category |-> "EMAIL_ADDRESSES", value |-> "test@example.com", start |-> 0,
      end |-> 16, confidence |-> 88],
     [category |-> "SSN"],
     [category |-> "NAMES", start |-> 3, confidence |-> 50]}

\* a record of a name that is no category, with some of the optional fields
CaseVariant == [category |-> "names", value |-> "x", end |-> 7]

\* a record without a category
Uncategorized == [value |-> "no category", start |-> 1, end |-> 2]

\* every list of sample records up to MaxLen, and lists where a record of
\* no category or without a category comes alone, first and last
RecordLists ==
    SeqsUpTo(SampleRecords, MaxLen)
    \cup {<<r>> : r \in {CaseVariant, Uncategorized}}
    \cup {<<r, e>> : r \in {CaseVariant, Uncategorized}, e \in SampleRecords}
    \cup {<<e, r>> : r \in {CaseVariant, Uncategorized}, e \in SampleRecords}

JsonDocuments ==
    {JsonList(L) : L \in RecordLists}
    \cup {JsonDict([entities |-> L]) : L \in RecordLists}
    \cup {JsonDict([entities |-> L, status |-> "violation"]) : L \in RecordLists}
    \cup {JsonDict(<<>>), JsonDict([status |-> "compliant"]),
          JsonDict([category |-> "NAMES", value |-> "John"])}

Payloads ==
    JsonDocuments \cup {JsonText(Some(doc)) : doc \in JsonDocuments} \cup {JsonText(None)}

ConfigPaths == {"default", "configs/hipaa-v1.json", "/nonexistent/path/config.json"}

\* results built by hand, as the serialization tests build them
SampleResults ==
    {VerificationResult(COMPLIANT, <<>>, "Document is compliant", None, [test |-> "data"]),
     VerificationResult(ERROR, <<PHIDetection("NAMES", "John", 0, 4, 90),
                                 PHIDetection("SSN", "123-45-6789", 10, 21, 99)>>,
                        "line one\nline two", None,
                        [error |-> "boom", solver_result |-> "unsat"])}

\* the names asked of the rule set: the categories, unknown names, case
\* variants, BIO labels, the outside label and the empty string
QueryNames ==
    Range(HashedNames) \cup {"Names", "ssn", "I-NAMES", "B-SSN", "O", "", "UNKNOWN"}

RuleIds == {"R" \o ToString(i) : i \in 0..21} \cup {"r1", "NAMES", ""}

(***************************************************************************)
(* Threads of the process inside verify.  A thread is at a statement of    *)
(* verify (pc) with its locals.  z3's Solver() and Bool() are called       *)
(* without a ctx argument, so every solver and every expression of every   *)
(* call lives in z3's one main context of the process; z3py calls the      *)
(* library through ctypes, which releases the interpreter lock for the     *)
(* duration of each call.  ctx.inside is the set of threads executing      *)
(* inside the library on the main context.  z3 contexts are not            *)
(* thread-safe: two threads inside at once are a data race on the          *)
(* context, after which the library's answers are not determined.          *)
(***************************************************************************)
Threads == 1..MaxThreads

main_ctx == [inside |-> {}]

IdleThread ==
    [pc |-> "idle", entities |-> <<>>, solver |-> Solver, category_vars |-> <<>>,
     result |-> "", raced |-> FALSE, ret |-> NoOutcome]

\* the statements of verify that call into z3, in program order
Z3Statements == <<"Solver", "create_z3_constraints", "push", "check", "pop">>

\* the detection lists the threads verify
ThreadInputs ==
    {<<>>,
     <<PHIDetection("NAMES", "John Smith", 0, 10, 95)>>,
     <<PHIDetection("names", "john", 30, 34, 90)>>}

\* what solver.check() can give after a race on the context: any answer, or
\* an exception of the library
RacedAnswers == {"sat", "unsat", "Z3Exception"}

(***************************************************************************)
(* The state machine: a process with its hash seed and one verifier built  *)
(* from the default configuration, then any sequence of calls, one at a    *)
(* time.  op, arg, ret and calls record the call in progress: its name,    *)
(* its arguments, its outcome and the internal calls it made.              *)
(***************************************************************************)
Init ==
    /\ hashseed \in 0..MaxSeed
    /\ verifier = HIPAAVerifier("default").value
    /\ op = "idle"
    /\ arg = <<>>
    /\ ret = NoOutcome
    /\ calls = <<>>
    /\ threads = [t \in Threads |-> IdleThread]
    /\ ctx = main_ctx

Verify ==
    \E entities \in EntityValues :
        /\ op = "idle"
        /\ op' = "verify"
        /\ arg' = [entities |-> entities,
                   after |-> entities_after_verify(verifier, entities)]
        /\ ret' = verify(verifier, entities, hashseed)
        /\ calls' = <<>>
        /\ UNCHANGED <<hashseed, verifier, threads, ctx>>

VerifyText ==
    \E text \in Texts, entity_extractor \in Extractors :
        LET done == verify_text(verifier, text, entity_extractor, hashseed)
        IN  /\ op = "idle"
            /\ op' = "verify_text"
            /\ arg' = [text |-> text, entity_extractor |-> entity_extractor]
            /\ ret' = done.out
            /\ calls' = done.calls
            /\ UNCHANGED <<hashseed, verifier, threads, ctx>>

BatchVerify ==
    \E documents \in Batches :
        /\ op = "idle"
        /\ op' = "batch_verify"
        /\ arg' = [documents |-> documents]
        /\ ret' = batch_verify(verifier, documents, hashseed)
        /\ calls' = <<>>
        /\ UNCHANGED <<hashseed, verifier, threads, ctx>>

VerifyFromJson ==
    \E entities_json \in Payloads, config_path \in ConfigPaths :
        /\ op = "idle"
        /\ op' = "verify_from_json"
        /\ arg' = [entities_json |-> entities_json, config_path |-> config_path]
        /\ ret' = verify_from_json(entities_json, config_path, hashseed)
        /\ calls' = <<>>
        /\ UNCHANGED <<hashseed, verifier, threads, ctx>>

\* verify_from_json(r.to_dict()) and verify_from_json(r.to_json()) on the
\* result r a verify call has just returned; config_path is left out
VerifyFromJsonOfResult ==
    \E form \in {"to_dict", "to_json"} :
        LET r == ret.value
            entities_json == IF form = "to_dict" THEN document_of(to_dict(r))
                             ELSE JsonTokens(to_json(r))
        IN  /\ op = "verify" /\ ret.kind = "return"
            /\ op' = "verify_from_json"
            /\ arg' = [entities_json |-> entities_json, config_path |-> "default", r |-> r]
            /\ ret' = verify_from_json(entities_json, "default", hashseed)
            /\ calls' = <<>>
            /\ UNCHANGED <<hashseed, verifier, threads, ctx>>

\* HIPAAVerifier(config_path): the name verifier is bound to the new object
\* when the construction returns, and keeps its object when it raises
Construct ==
    \E config_path \in ConfigPaths :
        LET made == HIPAAVerifier(config_path)
        IN  /\ op = "idle"
            /\ op' = "construct"
            /\ arg' = [config_path |-> config_path]
            /\ ret' = made
            /\ verifier' = IF made.kind = "return" THEN made.value ELSE verifier
            /\ calls' = <<>>
            /\ UNCHANGED <<hashseed, threads, ctx>>

\* a variant where the call takes the last rule off the catalogue
GetRules_consuming ==
    /\ op = "idle"
    /\ op' = "get_rules"
    /\ arg' = <<>>
    /\ ret' = Return(get_rules(verifier.rules))
    /\ calls' = <<>>
    /\ verifier' = [verifier EXCEPT !.rules._rules = SubSeq(@, 1, Len(@) - 1)]
    /\ UNCHANGED <<hashseed, threads, ctx>>

GetRules ==
    /\ op = "idle"
    /\ op' = "get_rules"
    /\ arg' = <<>>
    /\ ret' = Return(get_rules(verifier.rules))
    /\ calls' = <<>>
    /\ UNCHANGED <<hashseed, verifier, threads, ctx>>

GetRuleById ==
    \E rule_id \in RuleIds :
        /\ op = "idle"
        /\ op' = "get_rule_by_id"
        /\ arg' = [rule_id |-> rule_id]
        /\ ret' = Return(get_rule_by_id(verifier.rules, rule_id))
        /\ calls' = <<>>
        /\ UNCHANGED <<hashseed, verifier, threads, ctx>>

GetRulesForCategory ==
    \E category \in QueryNames :
        /\ op = "idle"
        /\ op' = "get_rules_for_category"
        /\ arg' = [category |-> category]
        /\ ret' = Return(get_rules_for_category(verifier.rules, category))
        /\ calls' = <<>>
        /\ UNCHANGED <<hashseed, verifier, threads, ctx>>

GetProhibitedCategories ==
    /\ op = "idle"
    /\ op' = "get_prohibited_categories"
    /\ arg' = <<>>
    /\ ret' = Return(get_prohibited_categories(verifier.rules))
    /\ calls' = <<>>
    /\ UNCHANGED <<hashseed, verifier, threads, ctx>>

IsProhibited ==
    \E category \in QueryNames :
        /\ op = "idle"
        /\ op' = "is_prohibited"
        /\ arg' = [category |-> category]
        /\ ret' = Return(is_prohibited(verifier.rules, category))
        /\ calls' = <<>>
        /\ UNCHANGED <<hashseed, verifier, threads, ctx>>

\* result.to_json() on a result verify or verify_text just returned, or on
\* a result built by hand
ToJson ==
    \E self \in (IF op \in {"verify", "verify_text"} /\ ret.kind = "return"
                 THEN {ret.value} ELSE {})
                 \cup (IF op = "idle" THEN SampleResults ELSE {}) :
        /\ op' = "to_json"
        /\ arg' = [self |-> self]
        /\ ret' = Return(to_json(self))
        /\ calls' = <<>>
        /\ UNCHANGED <<hashseed, verifier, threads, ctx>>

\* the caller is done with the outcome of a call: nothing of it is kept, and
\* the next call starts from the verifier alone
Discard ==
    /\ op # "idle"
    /\ op' = "idle"
    /\ arg' = <<>>
    /\ ret' = NoOutcome
    /\ calls' = <<>>
    /\ UNCHANGED <<hashseed, verifier, threads, ctx>>

Next ==
    \/ Verify \/ VerifyText \/ BatchVerify \/ VerifyFromJson
    \/ VerifyFromJsonOfResult
    \/ Construct \/ GetRules \/ GetRuleById \/ GetRulesForCategory
    \/ GetProhibitedCategories \/ IsProhibited
    \/ ToJson
    \/ Discard

Spec == Init /\ [][Next]_vars

(***************************************************************************)
(* verify, statement by statement, on the threads of the process.          *)
(***************************************************************************)
Locals(t) == threads[t]
SetLocals(t, new) == threads' = [threads EXCEPT ![t] = new]

\* a thread calls verifier.verify(entities)
ThreadCall(t) ==
    \E entities \in ThreadInputs :
        /\ Locals(t).pc = "idle"
        /\ SetLocals(t, [IdleThread EXCEPT !.pc = "Solver", !.entities = entities])
        /\ UNCHANGED <<hashseed, verifier, op, arg, ret, calls, ctx>>

\* the thread enters the library for its next z3 statement; the interpreter
\* lock is released, so other threads run meanwhile.  Entering while
\* another thread is inside is a race for both.
EnterZ3(t) ==
    /\ Locals(t).pc \in Range(Z3Statements)
    /\ t \notin ctx.inside
    /\ ctx' = [ctx EXCEPT !.inside = @ \cup {t}]
    /\ threads' = [u \in Threads |->
                      IF ctx.inside # {} /\ (u = t \/ u \in ctx.inside)
                      THEN [threads[u] EXCEPT !.raced = TRUE]
                      ELSE threads[u]]
    /\ UNCHANGED <<hashseed, verifier, op, arg, ret, calls>>

LeaveZ3(t) == ctx' = [ctx EXCEPT !.inside = @ \ {t}]

\* line 84: solver = Solver()
NewSolver(t) ==
    /\ Locals(t).pc = "Solver" /\ t \in ctx.inside
    /\ SetLocals(t, [Locals(t) EXCEPT !.pc = "create_z3_constraints", !.solver = Solver])
    /\ LeaveZ3(t)
    /\ UNCHANGED <<hashseed, verifier, op, arg, ret, calls>>

\* line 87: category_vars = self.rules.create_z3_constraints(entities, solver)
CreateConstraints(t) ==
    /\ Locals(t).pc = "create_z3_constraints" /\ t \in ctx.inside
    /\ LET made == create_z3_constraints(verifier.rules, Locals(t).entities, Locals(t).solver)
       IN  SetLocals(t, [Locals(t) EXCEPT !.pc = "push",
                                           !.solver = made.solver,
                                           !.category_vars = made.category_vars])
    /\ LeaveZ3(t)
    /\ UNCHANGED <<hashseed, verifier, op, arg, ret, calls>>

\* lines 90-102: solver.push() and the assertion of Not(Or(prohibited_vars))
PushAndAssert(t) ==
    /\ Locals(t).pc = "push" /\ t \in ctx.inside
    /\ LET category_vars == Locals(t).category_vars
           prohibited_categories == get_prohibited_categories(verifier.rules)
           present == SelectSeq(prohibited_categories,
                                LAMBDA cat : dict_has(category_vars, cat))
           prohibited_vars == [i \in 1..Len(present) |-> dict_get(category_vars, present[i])]
           pushed == solver_push(Locals(t).solver)
           asserted == IF prohibited_vars # <<>>
                       THEN solver_add(pushed, NotOr(prohibited_vars))
                       ELSE pushed
       IN  SetLocals(t, [Locals(t) EXCEPT !.pc = "check", !.solver = asserted])
    /\ LeaveZ3(t)
    /\ UNCHANGED <<hashseed, verifier, op, arg, ret, calls>>

\* line 104: result = solver.check()
Check(t) ==
    /\ Locals(t).pc = "check" /\ t \in ctx.inside
    /\ \E answer \in (IF Locals(t).raced THEN RacedAnswers
                       ELSE {solver_check(Locals(t).solver)}) :
           SetLocals(t, [Locals(t) EXCEPT !.pc = "pop", !.result = answer])
    /\ LeaveZ3(t)
    /\ UNCHANGED <<hashseed, verifier, op, arg, ret, calls>>

\* line 105: solver.pop()
Pop(t) ==
    /\ Locals(t).pc = "pop" /\ t \in ctx.inside
    /\ SetLocals(t, [Locals(t) EXCEPT !.pc = "result", !.solver = solver_pop(@)])
    /\ LeaveZ3(t)
    /\ UNCHANGED <<hashseed, verifier, op, arg, ret, calls>>

\* lines 108-159: the result, in the interpreter alone
GenerateResult(t) ==
    /\ Locals(t).pc = "result"
    /\ SetLocals(t, [Locals(t) EXCEPT
           !.pc = "done",
           !.ret = IF Locals(t).result = "Z3Exception"
                   THEN Raise("Z3Exception", "Exception", "invalid argument")
                   ELSE generate_result(verifier, Locals(t).entities,
                                        Locals(t).result, hashseed)])
    /\ UNCHANGED <<hashseed, verifier, op, arg, ret, calls, ctx>>

\* the caller of the thread takes the outcome
ThreadReturn(t) ==
    /\ Locals(t).pc = "done"
    /\ SetLocals(t, IdleThread)
    /\ UNCHANGED <<hashseed, verifier, op, arg, ret, calls, ctx>>

NextConcurrent ==
    \E t \in Threads :
        \/ ThreadCall(t) \/ EnterZ3(t)
        \/ NewSolver(t) \/ CreateConstraints(t) \/ PushAndAssert(t) \/ Check(t) \/ Pop(t)
        \/ GenerateResult(t) \/ ThreadReturn(t)

SpecConcurrent == Init /\ [][NextConcurrent]_vars

(***************************************************************************)
(* What the last call returned.                                            *)
(***************************************************************************)
Returned == ret.kind = "return"

\* the results the last call returned, one for a single call
Results ==
    IF ~Returned THEN <<>>
    ELSE IF op = "batch_verify" THEN ret.value
    ELSE IF op \in {"verify", "verify_text", "verify_from_json"} THEN <<ret.value>>
    ELSE <<>>

TypeOK ==
    /\ hashseed \in 0..MaxSeed
    /\ op \in {"idle", "verify", "verify_text", "batch_verify", "verify_from_json",
              "construct", "get_rules", "get_rule_by_id", "get_rules_for_category",
              "get_prohibited_categories", "is_prohibited", "to_json"}
    /\ ret.kind \in {"none", "return", "raise"}
    /\ \A i \in 1..Len(Results) : Results[i].status \in {COMPLIANT, VIOLATION, ERROR}

(***************************************************************************)
(* Vocabulary of the claims, stated from the specification.                *)
(***************************************************************************)
\* the 18 prohibited categories
ProhibitedCategories == Range(CategoryNames)

\* a verify call on a detection list, and that list
VerifyCall == op = "verify" /\ arg.entities.py = "list"
Input == arg.entities.items

\* the positions of the input whose category is prohibited, and the
\* detections there, in input order
ViolatingPositions(D) == {i \in 1..Len(D) : D[i].category \in ProhibitedCategories}
Violating(D) == SelectSeq(D, LAMBDA d : d.category \in ProhibitedCategories)

\* the distinct elements of a list in the order of their first occurrence
RECURSIVE FirstOccurrences(_)
FirstOccurrences(xs) ==
    IF xs = <<>> THEN <<>>
    ELSE LET n == Len(xs)
             front == FirstOccurrences(SubSeq(xs, 1, n - 1))
         IN  IF xs[n] \in Range(front) THEN front ELSE Append(front, xs[n])

\* the id of the absolute rule declared for a category: R<category id>
AbsoluteRuleId(category) ==
    "R" \o ToString(CHOOSE i \in 1..Len(CategoryNames) : CategoryNames[i] = category)

(***************************************************************************)
(* C1: for every detection list D, verify(D) returns status Violation if   *)
(* and only if some detection of D has one of the 18 prohibited            *)
(* categories, and status Compliant in every other case, D empty included. *)
(***************************************************************************)
C1_VerdictIffProhibited ==
    VerifyCall =>
        /\ Returned
        /\ ret.value.status =
              IF \E i \in 1..Len(Input) : Input[i].category \in ProhibitedCategories
              THEN VIOLATION ELSE COMPLIANT

\* a Violation for a list that also holds a detection of no category
C1_Witness ==
    /\ VerifyCall /\ Returned
    /\ ret.value.status = VIOLATION
    /\ \E i \in 1..Len(Input) : Input[i].category \notin ProhibitedCategories

(***************************************************************************)
(* C2: the satisfiability framing is equivalent to the membership check.   *)
(* create_z3_constraints fixes one boolean per prohibited category to true *)
(* exactly when some detection has that category; with the constraint of   *)
(* add_compliance_rule added the solver answers unsat exactly when some    *)
(* detection is prohibited, and that is the verdict verify reached with    *)
(* its inline constraint.                                                  *)
(***************************************************************************)
C2_FramingEquivalent ==
    VerifyCall =>
        LET made == create_z3_constraints(verifier.rules, Input, Solver)
            ruled == add_compliance_rule(verifier.rules, made.solver, made.category_vars)
            verdict == solver_check(ruled)
        IN  /\ Len(made.solver.assertions) = Len(CategoryNames)
            /\ \A i \in 1..Len(CategoryNames) :
                   made.solver.assertions[i] =
                       Eq(CategoryNames[i] \o "_detected",
                          \E j \in 1..Len(Input) : Input[j].category = CategoryNames[i])
            /\ (verdict = "unsat") <=> (ViolatingPositions(Input) # {})
            /\ (verdict = "sat") <=> (ViolatingPositions(Input) = {})
            /\ Returned /\ ret.value.metadata.solver_result = verdict

\* an unsat verdict for a list of two detections or more
C2_Witness ==
    /\ VerifyCall /\ Returned
    /\ Len(Input) >= 2
    /\ ret.value.metadata.solver_result = "unsat"

(***************************************************************************)
(* C3: when verify returns Violation, num_violations is the number of      *)
(* detections of the input whose category is prohibited, each counted on   *)
(* its own, and the list of violation records has that length.             *)
(***************************************************************************)
C3_CountsEveryDetection ==
    (VerifyCall /\ Returned /\ ret.value.status = VIOLATION) =>
        LET report == ret.value.violations[1]
        IN  /\ report.num_violations = Cardinality(ViolatingPositions(Input))
            /\ Len(report.violations) = Cardinality(ViolatingPositions(Input))

\* two detections of one category with overlapping spans, both counted
C3_Witness ==
    /\ VerifyCall /\ Returned
    /\ ret.value.status = VIOLATION
    /\ \E i, j \in 1..Len(Input) :
           /\ i < j
           /\ Input[i].category = Input[j].category
           /\ Input[i].category \in ProhibitedCategories
           /\ Input[j].start < Input[i].end
    /\ ret.value.violations[1].num_violations >= 2

(***************************************************************************)
(* C4: categories_violated is the list of the distinct categories of the   *)
(* violating detections, ordered by the first occurrence of each category  *)
(* in the input.                                                           *)
(***************************************************************************)
C4_FirstOccurrenceOrder ==
    (VerifyCall /\ Returned /\ ret.value.status = VIOLATION) =>
        ret.value.violations[1].categories_violated =
            FirstOccurrences([i \in 1..Len(Violating(Input)) |-> Violating(Input)[i].category])

(***************************************************************************)
(* C5: in every violation report every record has a non-empty              *)
(* violated_rules list, which holds the absolute rule declared for the     *)
(* record's own category: R1 for NAMES, ..., R18 for                       *)
(* ANY_OTHER_UNIQUE_IDENTIFYING_NUMBER.                                    *)
(***************************************************************************)
C5_RecordNamesItsAbsoluteRule ==
    \A k \in 1..Len(Results) :
        Results[k].violations # None =>
            \A i \in 1..Len(Results[k].violations[1].violations) :
                LET v == Results[k].violations[1].violations[i]
                IN  /\ v.violated_rules # <<>>
                    /\ \E r \in Range(get_rules(verifier.rules)) :
                           /\ r.id = AbsoluteRuleId(v.category)
                           /\ r.prohibition_type = "absolute"
                           /\ r.categories = <<v.category>>
                           /\ [id |-> r.id, name |-> r.name, description |-> r.description]
                                  \in Range(v.violated_rules)

\* the report of one detection of each of the 18 categories
C5_Witness ==
    /\ VerifyCall /\ Returned
    /\ ret.value.status = VIOLATION
    /\ {ret.value.violations[1].violations[i].category :
            i \in 1..Len(ret.value.violations[1].violations)} = ProhibitedCategories

(***************************************************************************)
(* C6: every Compliant result of verify, that of verify([]) among them,    *)
(* has no violation report and a proof made of the compliant header and    *)
(* one line per category, in category order, each marked clear.            *)
(***************************************************************************)
CompliantHeader ==
    << "HIPAA COMPLIANT", "========================================",
       "No prohibited PHI identifiers detected.", "",
       "Verification passed for all 18 HIPAA Safe Harbor categories:" >>

C6_CompliantProofAllClear ==
    /\ (VerifyCall /\ Input = <<>>) => (Returned /\ ret.value.status = COMPLIANT)
    /\ \A k \in 1..Len(Results) :
           Results[k].status = COMPLIANT =>
               /\ Results[k].violations = None
               /\ Results[k].proof =
                      join("\n", CompliantHeader
                                 \o [i \in 1..Len(CategoryNames) |->
                                        "  " \o CategoryNames[i] \o ": [v] Clear"])

\* a Compliant result for a list that is not empty
C6_Witness ==
    /\ VerifyCall /\ Returned
    /\ Input # <<>>
    /\ ret.value.status = COMPLIANT

(***************************************************************************)
(* C7: a Violation proof is the violation header, one block per violating  *)
(* detection in input order (category, value, start-end span, one line per *)
(* violated rule with its id and description), then the totals: the count, *)
(* equal to num_violations, and the distinct violated categories.          *)
(***************************************************************************)
ExpectedBlock(d, rules) ==
    << "Category: " \o d.category,
       "  Value: " \o d.value,
       "  Position: " \o ToString(d.start) \o "-" \o ToString(d.end) >>
    \o [i \in 1..Len(rules) |-> "  Violated: " \o rules[i].id \o " - " \o rules[i].description]
    \o << "" >>

C7_ViolationProofLayout ==
    (VerifyCall /\ Returned /\ ret.value.status = VIOLATION) =>
        LET report == ret.value.violations[1]
            hits == Violating(Input)
        IN  /\ Len(report.violations) = Len(hits)
            /\ \A i \in 1..Len(report.violations) : report.violations[i].violated_rules # <<>>
            /\ Range(report.categories_violated) = {hits[i].category : i \in 1..Len(hits)}
            /\ ret.value.proof =
                  join("\n",
                       << "HIPAA VIOLATION DETECTED",
                          "========================================" >>
                       \o Concat([i \in 1..Len(hits) |->
                                     ExpectedBlock(hits[i], report.violations[i].violated_rules)])
                       \o << "Total violations: " \o ToString(report.num_violations),
                             "Categories: " \o join(", ", report.categories_violated) >>)

\* a proof with more blocks than categories, for an input that also holds
\* a detection of no category
C7_Witness ==
    /\ VerifyCall /\ Returned
    /\ ret.value.status = VIOLATION
    /\ ret.value.violations[1].num_violations
           > Len(ret.value.violations[1].categories_violated)
    /\ \E i \in 1..Len(Input) : Input[i].category \notin ProhibitedCategories

(***************************************************************************)
(* C8: verify_text never lets an exception escape: whenever the extractor  *)
(* raises, or the verification of what it returned fails, verify_text      *)
(* returns a result with status Error, no entities, no violation report, a *)
(* proof with the failure text and metadata.error equal to that text.      *)
(***************************************************************************)
\* the failure of the extraction or of the verification after it
TextFailure ==
    IF arg.entity_extractor.kind = "raises"
    THEN [kind |-> "raise", value |-> <<>>, exc |-> arg.entity_extractor.exc]
    ELSE IF arg.entity_extractor.kind = "returns"
    THEN verify(verifier, arg.entity_extractor.value, hashseed)
    ELSE NoOutcome

ErrorResultFor(msg) ==
    /\ Returned
    /\ ret.value.status = ERROR
    /\ ret.value.entities = <<>>
    /\ ret.value.violations = None
    /\ ret.value.proof = "Error during verification: " \o msg
    /\ ret.value.metadata = [error |-> msg]

C9_NoExtractorIsError ==
    (op = "verify_text" /\ arg.entity_extractor.kind = "none") =>
        /\ Returned
        /\ ret.value.status = ERROR
        /\ ret.value.entities = <<>>
        /\ ret.value.violations = None
        /\ ret.value.metadata = [error |-> "no_extractor"]
        /\ calls = <<>>

C9_Witness ==
    /\ op = "verify_text"
    /\ arg.entity_extractor.kind = "none"
    /\ arg.text = "Test text"
    /\ Returned /\ ret.value.status = ERROR

(***************************************************************************)
(* C10: status Error is reachable through verify_text alone: every result  *)
(* that verify, batch_verify or verify_from_json returns is Compliant or   *)
(* Violation.                                                              *)
(***************************************************************************)
C10_ErrorOnlyFromVerifyText ==
    op \in {"verify", "batch_verify", "verify_from_json"} =>
        \A k \in 1..Len(Results) : Results[k].status \in {COMPLIANT, VIOLATION}

\* a batch of two results, one Compliant and one Violation
C10_Witness ==
    /\ op = "batch_verify" /\ Returned
    /\ Len(Results) = 2
    /\ {Results[1].status, Results[2].status} = {COMPLIANT, VIOLATION}

(***************************************************************************)
(* C11: batch_verify returns one result per input detection list, in input *)
(* order, and the i-th result is the result of verify on the i-th list     *)
(* alone, whatever the other lists hold; batch_verify([]) is [].           *)
(***************************************************************************)
BatchCall == op = "batch_verify"
Documents == arg.documents
AllDetectionLists(docs) == \A i \in 1..Len(docs) : docs[i].py = "list"

C11_BatchIsPointwiseVerify ==
    (BatchCall /\ AllDetectionLists(Documents)) =>
        /\ Returned
        /\ Len(ret.value) = Len(Documents)
        /\ \A i \in 1..Len(Documents) :
               ret.value[i] = verify(verifier, Documents[i], hashseed).value
        /\ (Documents = <<>> => ret.value = <<>>)

\* a batch of a list with two prohibited categories followed by the empty
\* list: a Violation with two violations, then a Compliant result
C11_Witness ==
    /\ BatchCall /\ Returned
    /\ Len(Documents) = 2 /\ AllDetectionLists(Documents)
    /\ Len(Documents[1].items) = 2 /\ Documents[2].items = <<>>
    /\ ret.value[1].status = VIOLATION
    /\ ret.value[1].violations[1].num_violations = 2
    /\ ret.value[2].status = COMPLIANT

(***************************************************************************)
(* C12: a document of a batch whose verification fails does not abort the  *)
(* batch: batch_verify still returns, with the results of the sibling      *)
(* lists.                                                                  *)
(***************************************************************************)
C12_FailingDocumentIsIsolated ==
    BatchCall =>
        /\ Returned
        /\ Len(ret.value) = Len(Documents)
        /\ \A i \in 1..Len(Documents) :
               Documents[i].py = "list" =>
                   ret.value[i] = verify(verifier, Documents[i], hashseed).value

(***************************************************************************)
(* Vocabulary of the wire constructor: the document a payload holds once   *)
(* parsed, the shapes of a request, and the detection a record stands for  *)
(* with the defaults of the specification.                                 *)
(***************************************************************************)
JsonCall == op = "verify_from_json"
Parses == arg.entities_json.t = "str" => json_loads(arg.entities_json).kind = "return"
Parsed ==
    IF arg.entities_json.t = "str" THEN json_loads(arg.entities_json).value
    ELSE arg.entities_json
ConfigLoads == load_hipaa_config(arg.config_path).kind = "return"

IsBareList(doc) == doc.t = "list"
HasEntities(doc) == doc.t = "dict" /\ "entities" \in DOMAIN doc.d
RecordsOf(doc) == IF IsBareList(doc) THEN doc.items ELSE doc.d["entities"]
AllHaveCategory(L) == \A i \in 1..Len(L) : "category" \in DOMAIN L[i]

FieldOr(e, key, default) == IF key \in DOMAIN e THEN e[key] ELSE default
ExpectedDetection(e) ==
    [category |-> e["category"],
     value |-> FieldOr(e, "value", ""),
     start |-> FieldOr(e, "start", 0),
     end |-> FieldOr(e, "end", 0),
     confidence |-> FieldOr(e, "confidence", DefaultConfidence)]
ExpectedDetections(L) == [i \in 1..Len(L) |-> ExpectedDetection(L[i])]

(***************************************************************************)
(* C13: verify_from_json accepts a bare list L of detection records and    *)
(* the mapping {"entities": L} alike: both calls succeed with the result   *)
(* of verify on the detections built from L.                               *)
(***************************************************************************)
C13_BothShapesAccepted ==
    (/\ JsonCall /\ Parses /\ ConfigLoads
     /\ (IsBareList(Parsed) \/ HasEntities(Parsed))
     /\ AllHaveCategory(RecordsOf(Parsed))) =>
        /\ Returned
        /\ ret = verify(verifier, PyList(ExpectedDetections(RecordsOf(Parsed))), hashseed)

(***************************************************************************)
(* C14: verify_from_json fails, returning no result, whenever its parsed   *)
(* input is neither a list nor a mapping with an "entities" key; such      *)
(* input never becomes a Compliant or Violation result.                    *)
(***************************************************************************)
C14_OtherShapesRejected ==
    (/\ JsonCall /\ Parses /\ ConfigLoads
     /\ ~IsBareList(Parsed) /\ ~HasEntities(Parsed)) =>
        ret.kind = "raise"

RuleId(i) == "R" \o ToString(i)

CatalogueShape(rules) ==
    /\ Len(rules) = Len(CategoryNames) + 2
    /\ \A i \in 1..Len(rules) : rules[i].id = RuleId(i)
    /\ \A i, j \in 1..Len(rules) : rules[i].id = rules[j].id => i = j
    /\ \A k \in 1..Len(CategoryNames) :
           {i \in 1..Len(rules) : /\ rules[i].prohibition_type = "absolute"
                                  /\ CategoryNames[k] \in Range(rules[i].categories)} = {k}
    /\ \A k \in 1..Len(CategoryNames) : rules[k].categories = <<CategoryNames[k]>>
    /\ {i \in 1..Len(rules) : rules[i].prohibition_type # "absolute"}
           = {Len(CategoryNames) + 1, Len(CategoryNames) + 2}
    /\ rules[Len(CategoryNames) + 1].prohibition_type = "conditional"
    /\ rules[Len(CategoryNames) + 1].categories = <<"DATES">>
    /\ rules[Len(CategoryNames) + 2].prohibition_type = "conditional"
    /\ rules[Len(CategoryNames) + 2].categories = <<"GEOGRAPHIC_SUBDIVISIONS">>

C16_CatalogueIsR1ToR20 ==
    /\ (op = "get_rules" => Returned /\ CatalogueShape(ret.value))
    /\ ((op = "construct" /\ Returned) => CatalogueShape(get_rules(ret.value.rules)))

\* get_rules() on a verifier built from the configuration file
C16_Witness ==
    /\ op = "get_rules" /\ Returned
    /\ Len(ret.value) = 20
    /\ ret.value[7].id = "R7" /\ ret.value[7].categories = <<"SSN">>
    /\ ret.value[20].id = "R20"

(***************************************************************************)
(* C17: get_prohibited_categories returns the 18 category names in         *)
(* category order, and is_prohibited(name) is true exactly when name is,   *)
(* character for character, one of them: false for unknown names, case     *)
(* variants and BIO-prefixed labels.                                       *)
(***************************************************************************)
C17_ProhibitedExactMatch ==
    /\ (op = "get_prohibited_categories" => Returned /\ ret.value = CategoryNames)
    /\ (op = "is_prohibited" =>
           /\ Returned
           /\ ret.value = (\E k \in 1..Len(CategoryNames) : CategoryNames[k] = arg.category))

\* is_prohibited answers FALSE for the BIO label of a category
C17_Witness ==
    /\ op = "is_prohibited" /\ Returned
    /\ arg.category = "B-SSN"
    /\ ret.value = FALSE

(***************************************************************************)
(* C19: the proof string is deterministic: two verifications of one        *)
(* detection list, in the same run or in different runs, give the same     *)
(* proof, character for character, and the same violation report.  A run   *)
(* is a process with its own string-hash seed; the result of the call is   *)
(* compared with the result the same call has in a run of any seed.        *)
(***************************************************************************)
Runs == 0..MaxSeed

C19_ProofSameInEveryRun ==
    (VerifyCall /\ Returned) =>
        \A run \in Runs :
            LET other == verify(verifier, arg.entities, run).value
            IN  /\ other.proof = ret.value.proof
                /\ other.violations = ret.value.violations

(***************************************************************************)
(* C20: serialization round-trips: parsing the text to_json produced for a *)
(* result gives a wire object whose status ("compliant", "violation" or    *)
(* "error"), entities (category, value, start, end and confidence of each  *)
(* detection, in order), proof, violations and metadata are those of the   *)
(* result.                                                                 *)
(***************************************************************************)
\* the value of a member of a wire object, and the keys of the object
Member(obj, key) == obj.items[CHOOSE k \in 1..Len(obj.items) : obj.items[k].s = key].items[1]
Keys(obj) == {obj.items[k].s : k \in 1..Len(obj.items)}
IsObject(obj, keys) == obj.j = "object" /\ Keys(obj) = keys /\ Len(obj.items) = Cardinality(keys)
Elements(arr) == arr.items

SameDetection(w, d) ==
    /\ IsObject(w, {"category", "value", "start", "end", "confidence"})
    /\ Member(w, "category") = JStr(d.category)
    /\ Member(w, "value") = JStr(d.value)
    /\ Member(w, "start") = JInt(d.start)
    /\ Member(w, "end") = JInt(d.end)
    /\ Member(w, "confidence") = JFloat(d.confidence)

SameRule(w, rule) ==
    /\ IsObject(w, {"id", "name", "description"})
    /\ Member(w, "id") = JStr(rule.id)
    /\ Member(w, "name") = JStr(rule.name)
    /\ Member(w, "description") = JStr(rule.description)

SameRecord(w, v) ==
    /\ IsObject(w, {"category", "value", "location", "confidence", "violated_rules"})
    /\ Member(w, "category") = JStr(v.category)
    /\ Member(w, "value") = JStr(v.value)
    /\ IsObject(Member(w, "location"), {"start", "end"})
    /\ Member(Member(w, "location"), "start") = JInt(v.location.start)
    /\ Member(Member(w, "location"), "end") = JInt(v.location.end)
    /\ Member(w, "confidence") = JFloat(v.confidence)
    /\ Member(w, "violated_rules").j = "array"
    /\ Len(Elements(Member(w, "violated_rules"))) = Len(v.violated_rules)
    /\ \A k \in 1..Len(v.violated_rules) :
           SameRule(Elements(Member(w, "violated_rules"))[k], v.violated_rules[k])

SameReport(w, violations) ==
    IF violations = None THEN w = JNull
    ELSE LET report == violations[1]
         IN  /\ IsObject(w, {"num_violations", "violations", "categories_violated"})
             /\ Member(w, "num_violations") = JInt(report.num_violations)
             /\ Member(w, "violations").j = "array"
             /\ Len(Elements(Member(w, "violations"))) = Len(report.violations)
             /\ \A i \in 1..Len(report.violations) :
                    SameRecord(Elements(Member(w, "violations"))[i], report.violations[i])
             /\ Member(w, "categories_violated")
                    = JArr([i \in 1..Len(report.categories_violated) |->
                               JStr(report.categories_violated[i])])

SameMetadata(w, metadata) ==
    /\ IsObject(w, DOMAIN metadata)
    /\ \A key \in DOMAIN metadata : Member(w, key) = JStr(metadata[key])

C20_WireFormRoundTrips ==
    op = "to_json" =>
        LET self == arg.self
            parsed == json_loads_text(ret.value)
        IN  /\ Returned
            /\ parsed.kind = "return"
            /\ IsObject(parsed.value, {"status", "entities", "proof", "violations", "metadata"})
            /\ Member(parsed.value, "status") = JStr(self.status)
            /\ self.status \in {"compliant", "violation", "error"}
            /\ Member(parsed.value, "entities").j = "array"
            /\ Len(Elements(Member(parsed.value, "entities"))) = Len(self.entities)
            /\ \A i \in 1..Len(self.entities) :
                   SameDetection(Elements(Member(parsed.value, "entities"))[i], self.entities[i])
            /\ Member(parsed.value, "proof") = JStr(self.proof)
            /\ SameReport(Member(parsed.value, "violations"), self.violations)
            /\ SameMetadata(Member(parsed.value, "metadata"), self.metadata)

\* the text of a Violation with two detections of one category
C20_Witness ==
    /\ op = "to_json" /\ Returned
    /\ arg.self.status = VIOLATION
    /\ Len(arg.self.entities) = 2
    /\ arg.self.entities[1].category = arg.self.entities[2].category
    /\ arg.self.violations[1].num_violations = 2
    /\ json_loads_text(ret.value).kind = "return"

(***************************************************************************)
(* C18: verify calls on one shared verifier may run concurrently without   *)
(* synchronization: under every interleaving, each call returns exactly    *)
(* the result it returns when run alone, since no mutable state is shared  *)
(* between calls.                                                          *)
(***************************************************************************)
C18_ConcurrentCallsAsAlone ==
    \A t \in Threads :
        threads[t].pc = "done" =>
            threads[t].ret = verify(verifier, PyList(threads[t].entities), hashseed)

(***************************************************************************)
(* C21: the entities of the result of verify(D) are the detections of D,   *)
(* in the same order and with the same multiplicity, and the call leaves   *)
(* D and its detections as they were.                                      *)
(***************************************************************************)
C21_EntitiesAreTheInput ==
    (VerifyCall /\ Returned) =>
        /\ Len(ret.value.entities) = Len(Input)
        /\ \A i \in 1..Len(Input) : ret.value.entities[i] = Input[i]
        /\ arg.after = arg.entities

\* three detections, two of one category with overlapping spans
C21_Witness ==
    /\ VerifyCall /\ Returned
    /\ Len(Input) = 3
    /\ Input[1].category = Input[2].category
    /\ Input[1] # Input[2]
    /\ Input[2].start < Input[1].end /\ Input[1].start < Input[2].end
    /\ ret.value.entities = Input

(***************************************************************************)
(* C22: the verdict depends on the categories alone: two detection lists   *)
(* with the same category at every position get the same status and the    *)
(* same num_violations, whatever the confidence, the value and the span; a *)
(* prohibited detection is a violation at confidence 0.01, with an empty   *)
(* value or a 0-0 span.                                                    *)
(***************************************************************************)
NumViolations(result) ==
    IF result.violations = None THEN 0 ELSE result.violations[1].num_violations

SameCategories(D, E) ==
    Len(D) = Len(E) /\ \A i \in 1..Len(D) : D[i].category = E[i].category

C22_VerdictIgnoresConfidenceValueSpan ==
    (VerifyCall /\ Returned) =>
        \A E \in DetectionLists :
            SameCategories(Input, E) =>
                LET other == verify(verifier, PyList(E), hashseed).value
                IN  /\ other.status = ret.value.status
                    /\ NumViolations(other) = NumViolations(ret.value)

\* a single prohibited detection of confidence 0.01
C22_Witness ==
    /\ VerifyCall /\ Returned
    /\ Len(Input) = 1
    /\ Input[1].category \in ProhibitedCategories
    /\ Input[1].confidence = 1
    /\ ret.value.status = VIOLATION
    /\ \E E \in DetectionLists : SameCategories(Input, E) /\ E # Input

(***************************************************************************)
(* C24: configuration is loaded before any verification: a verifier and    *)
(* its rule set exist only once their configuration has loaded; with a     *)
(* missing configuration source the construction fails with an error and   *)
(* yields no verifier, so no result is ever returned under a configuration *)
(* that failed to load.                                                    *)
(***************************************************************************)
Loads(config_path) == load_hipaa_config(config_path).kind = "return"

HoldsLoadedConfiguration(v) ==
    \E config_path \in ConfigPaths :
        /\ Loads(config_path)
        /\ v.rules.config = load_hipaa_config(config_path).value

C24_NoVerifierWithoutConfiguration ==
    /\ HoldsLoadedConfiguration(verifier)
    /\ (op = "construct" =>
           /\ Returned <=> Loads(arg.config_path)
           /\ Returned => HoldsLoadedConfiguration(ret.value)
           /\ ~Returned => (ret.kind = "raise" /\ ret.exc.cls = "FileNotFoundError"))
    /\ ((op = "verify_from_json" /\ ~Loads(arg.config_path)) => ret.kind = "raise")

\* a construction from a path with no file has raised, and the verifier in
\* use is the one built before
C24_Witness ==
    /\ op = "construct"
    /\ arg.config_path = "/nonexistent/path/config.json"
    /\ ret.kind = "raise"
    /\ HoldsLoadedConfiguration(verifier)

(***************************************************************************)
(* C25: the rule set is immutable after construction: after any sequence   *)
(* of verify, verify_text, batch_verify, get_rules, get_rule_by_id,        *)
(* get_rules_for_category, get_prohibited_categories and is_prohibited     *)
(* calls, the rule catalogue and the list of prohibited categories are     *)
(* what they were right after construction.                                *)
(***************************************************************************)
AsConstructed == HIPAARules("default").value

C25_RuleSetAsConstructed ==
    /\ get_rules(verifier.rules) = get_rules(AsConstructed)
    /\ \A i \in 1..Len(get_rules(verifier.rules)) :
           LET rule == get_rules(verifier.rules)[i]
               first == get_rules(AsConstructed)[i]
           IN  /\ rule.id = first.id
               /\ rule.categories = first.categories
               /\ rule.prohibition_type = first.prohibition_type
    /\ get_prohibited_categories(verifier.rules) = get_prohibited_categories(AsConstructed)
    /\ verifier.rules.config = AsConstructed.config

\* a batch has been verified, with a Violation in it, and the catalogue is
\* the one of the construction
C25_Witness ==
    /\ op = "batch_verify" /\ Returned
    /\ \E k \in 1..Len(ret.value) : ret.value[k].status = VIOLATION
    /\ get_rules(verifier.rules) = get_rules(AsConstructed)
    /\ Len(get_rules(verifier.rules)) = Len(CategoryNames) + 2

(***************************************************************************)
(* C26: get_rules_for_category(name) returns exactly the rules whose       *)
(* category list contains name, in catalogue order: [R3, R19] for DATES,   *)
(* [R2, R20] for GEOGRAPHIC_SUBDIVISIONS, the single absolute rule for     *)
(* each other category and the empty list for any other name; the          *)
(* violated_rules of each violation record is this list for the record's   *)
(* category, conditional rule included.                                    *)
(***************************************************************************)
ExpectedRuleIds(name) ==
    IF name = "DATES" THEN <<"R3", "R19">>
    ELSE IF name = "GEOGRAPHIC_SUBDIVISIONS" THEN <<"R2", "R20">>
    ELSE IF name \in ProhibitedCategories THEN <<AbsoluteRuleId(name)>>
    ELSE <<>>

Ids(rs) == [i \in 1..Len(rs) |-> rs[i].id]

\* the positions in the catalogue of the rules that list the name
CataloguePositions(name) ==
    {i \in 1..Len(get_rules(verifier.rules)) :
        name \in Range(get_rules(verifier.rules)[i].categories)}

C26_RulesForCategory ==
    /\ (op = "get_rules_for_category" /\ Returned) =>
          /\ Ids(ret.value) = ExpectedRuleIds(arg.category)
          /\ Len(ret.value) = Cardinality(CataloguePositions(arg.category))
          /\ \A i \in 1..Len(ret.value) :
                \E p \in CataloguePositions(arg.category) :
                    /\ ret.value[i] = get_rules(verifier.rules)[p]
                    /\ Cardinality({q \in CataloguePositions(arg.category) : q <= p}) = i
    /\ \A k \in 1..Len(Results) :
          Results[k].violations # None =>
              \A i \in 1..Len(Results[k].violations[1].violations) :
                  LET v == Results[k].violations[1].violations[i]
                  IN  /\ Ids(v.violated_rules) = ExpectedRuleIds(v.category)
                      /\ \A j \in 1..Len(v.violated_rules) :
                            \E r \in Range(get_rules(verifier.rules)) :
                                /\ r.id = v.violated_rules[j].id
                                /\ r.name = v.violated_rules[j].name
                                /\ r.description = v.violated_rules[j].description

\* a report with a DATES record that names R3 and R19 and a
\* GEOGRAPHIC_SUBDIVISIONS record that names R2 and R20
C26_Witness ==
    /\ VerifyCall /\ Returned
    /\ ret.value.status = VIOLATION
    /\ \E i, j \in 1..Len(ret.value.violations[1].violations) :
          LET v == ret.value.violations[1].violations[i]
              w == ret.value.violations[1].violations[j]
          IN  /\ v.category = "DATES"
              /\ Ids(v.violated_rules) = <<"R3", "R19">>
              /\ w.category = "GEOGRAPHIC_SUBDIVISIONS"
              /\ Ids(w.violated_rules) = <<"R2", "R20">>

(***************************************************************************)
(* C27: in every result returned by verify, verify_text or batch_verify    *)
(* the fields agree with the status: Violation exactly when violations is  *)
(* non-null, and then num_violations >= 1, categories_violated is          *)
(* non-empty and solver_result is "unsat"; Compliant implies violations    *)
(* null and solver_result "sat"; Error implies violations null, entities   *)
(* empty and an "error" entry in the metadata.                             *)
(***************************************************************************)
FieldsAgree(r) ==
    /\ r.status \in {COMPLIANT, VIOLATION, ERROR}
    /\ r.status = VIOLATION <=> r.violations # None
    /\ r.status = VIOLATION =>
          /\ r.violations[1].num_violations >= 1
          /\ r.violations[1].num_violations = Len(r.violations[1].violations)
          /\ r.violations[1].categories_violated # <<>>
          /\ "solver_result" \in DOMAIN r.metadata
          /\ r.metadata.solver_result = "unsat"
    /\ r.status = COMPLIANT =>
          /\ r.violations = None
          /\ "solver_result" \in DOMAIN r.metadata
          /\ r.metadata.solver_result = "sat"
    /\ r.status = ERROR =>
          /\ r.violations = None
          /\ r.entities = <<>>
          /\ "error" \in DOMAIN r.metadata

C27_FieldsAgreeWithStatus ==
    op \in {"verify", "verify_text", "batch_verify"} =>
        \A k \in 1..Len(Results) : FieldsAgree(Results[k])

\* a batch that returned a Violation and a Compliant result
C27_Witness ==
    /\ op = "batch_verify" /\ Returned
    /\ \E i, j \in 1..Len(ret.value) :
          /\ ret.value[i].status = VIOLATION
          /\ ret.value[i].metadata.solver_result = "unsat"
          /\ ret.value[j].status = COMPLIANT
          /\ ret.value[j].entities # <<>>
          /\ ret.value[j].violations = None

(***************************************************************************)
(* C28: the verdict is monotone and order-independent: if verify(D) is     *)
(* Violation then verify of D extended by E, in any position, is           *)
(* Violation; num_violations of the concatenation is the sum of the        *)
(* prohibited-detection counts of D and E; any permutation of D receives   *)
(* the same status and the same num_violations as D.  E is a non-empty     *)
(* run of the verified list and D the rest of it.                          *)
(***************************************************************************)
Count(D) == Len(Violating(D))

Permute(D, f) == [i \in 1..Len(D) |-> D[f[i]]]

\* the exchanges of two positions of 1..n
Swaps(n) ==
    {[k \in 1..n |-> IF k = i THEN j ELSE IF k = j THEN i ELSE k] : i, j \in 1..n}

\* the rotations of 1..n
Rotations(n) == {[k \in 1..n |-> ((k + r - 1) % n) + 1] : r \in 1..n}

\* the exchanges, the rotations and the reversal of a list: every
\* permutation of a list of up to three detections is one of them
Rearrangements(D) ==
    Swaps(Len(D)) \cup Rotations(Len(D)) \cup {[k \in 1..Len(D) |-> Len(D) + 1 - k]}

C28_MonotoneAndOrderIndependent ==
    (VerifyCall /\ Returned) =>
        /\ \A a \in 0..Len(Input) : \A b \in (a + 1)..Len(Input) :
              LET E == SubSeq(Input, a + 1, b)
                  D == SubSeq(Input, 1, a) \o SubSeq(Input, b + 1, Len(Input))
                  alone == verify(verifier, PyList(D), hashseed).value
              IN  /\ alone.status = VIOLATION => ret.value.status = VIOLATION
                  /\ NumViolations(alone) = Count(D)
                  /\ NumViolations(ret.value) = Count(D) + Count(E)
        /\ \A f \in Rearrangements(Input) :
              LET permuted == verify(verifier, PyList(Permute(Input, f)), hashseed).value
              IN  /\ permuted.status = ret.value.status
                  /\ NumViolations(permuted) = NumViolations(ret.value)

\* a prohibited detection, then one of no category, then a prohibited one
\* of another category: the first alone is a Violation, the whole list is
\* a Violation of two
C28_Witness ==
    /\ VerifyCall /\ Returned
    /\ Len(Input) = 3
    /\ Input[1].category \in ProhibitedCategories
    /\ Input[2].category \notin ProhibitedCategories
    /\ Input[3].category \in ProhibitedCategories \ {Input[1].category}
    /\ verify(verifier, PyList(<<Input[1]>>), hashseed).value.status = VIOLATION
    /\ ret.value.status = VIOLATION
    /\ NumViolations(ret.value) = 2

(***************************************************************************)
(* C29: a detection whose category is not one of the 18 prohibited names   *)
(* never contributes to the verdict: it creates no solver variable, a      *)
(* list made only of such detections is Compliant, and in a Violation      *)
(* result such a detection appears in result.entities but in no violation  *)
(* record, in no count and not in categories_violated.                     *)
(***************************************************************************)
OtherPositions(D) == {i \in 1..Len(D) : D[i].category \notin ProhibitedCategories}

\* the variables the constraints of a list are about
SolverVariables(made) ==
    {made.category_vars[i][2] : i \in 1..Len(made.category_vars)}
    \cup UNION {AssertionVars(made.solver.assertions[i]) :
                    i \in 1..Len(made.solver.assertions)}

C29_OtherCategoriesDoNotContribute ==
    (VerifyCall /\ Returned) =>
        LET made == create_z3_constraints(verifier.rules, Input, Solver)
            without == create_z3_constraints(verifier.rules, Violating(Input), Solver)
        IN  /\ \A i \in OtherPositions(Input) :
                  /\ ~dict_has(made.category_vars, Input[i].category)
                  /\ Bool(Input[i].category \o "_detected") \notin SolverVariables(made)
            /\ Cardinality(SolverVariables(made)) = Cardinality(ProhibitedCategories)
            /\ made = without
            /\ OtherPositions(Input) = 1..Len(Input) => ret.value.status = COMPLIANT
            /\ ret.value.status = VIOLATION =>
                  LET report == ret.value.violations[1]
                  IN  /\ \A i \in OtherPositions(Input) :
                            /\ ret.value.entities[i] = Input[i]
                            /\ \A k \in 1..Len(report.violations) :
                                  report.violations[k].category # Input[i].category
                            /\ Input[i].category \notin Range(report.categories_violated)
                      /\ report.num_violations = Len(Input) - Cardinality(OtherPositions(Input))

\* a Violation of a list that holds a detection of the case variant "names"
\* next to a prohibited one
C29_Witness ==
    /\ VerifyCall /\ Returned
    /\ ret.value.status = VIOLATION
    /\ \E i \in OtherPositions(Input) :
          /\ Input[i].category = "names"
          /\ ret.value.entities[i].category = "names"
    /\ ret.value.violations[1].num_violations < Len(Input)

(***************************************************************************)
(* C30: the result wire form can be fed back as a request: for every       *)
(* result r returned by verify, verify_from_json(r.to_dict()) and          *)
(* verify_from_json(r.to_json()) return a result with the same status,     *)
(* the same entities, field by field and in order, and the same            *)
(* num_violations as r.                                                    *)
(***************************************************************************)
FedBack == op = "verify_from_json" /\ "r" \in DOMAIN arg

C30_WireFormFeedsBack ==
    FedBack =>
        /\ Returned
        /\ ret.value.status = arg.r.status
        /\ Len(ret.value.entities) = Len(arg.r.entities)
        /\ \A i \in 1..Len(arg.r.entities) :
               /\ ret.value.entities[i].category = arg.r.entities[i].category
               /\ ret.value.entities[i].value = arg.r.entities[i].value
               /\ ret.value.entities[i].start = arg.r.entities[i].start
               /\ ret.value.entities[i].end = arg.r.entities[i].end
               /\ ret.value.entities[i].confidence = arg.r.entities[i].confidence
        /\ (ret.value.violations = None) <=> (arg.r.violations = None)
        /\ NumViolations(ret.value) = NumViolations(arg.r)

\* the text of a Violation of two, with a detection of no category and an
\* empty value among its three entities, fed back
C30_Witness ==
    /\ FedBack /\ Returned
    /\ arg.entities_json.t = "str"
    /\ arg.entities_json.items # <<>>
    /\ arg.r.status = VIOLATION
    /\ Len(arg.r.entities) = 3
    /\ \E i, j \in 1..3 : /\ arg.r.entities[i].category \notin ProhibitedCategories
                          /\ arg.r.entities[j].value = ""
    /\ NumViolations(ret.value) = 2

====
